---------------------------- MODULE Spec2Model ----------------------------
(***************************************************************************)
(* A model of the mail catcher (andmetoo/mailcatcher): the message store   *)
(* of Server (messages guarded by the RWMutex mu), the SMTP session that   *)
(* feeds it (Mail, Rcpt, Data, Reset), and the header scan parseSubject.   *)
(*                                                                         *)
(* Text (a body, a line, a subject) is a sequence of one-character         *)
(* strings.  One extra element, Block, stands for a run of BlockLen filler *)
(* bytes "x", so that a line can be as long as the scanner's buffer        *)
(* without the model holding 65536 elements.                               *)
(***************************************************************************)
EXTENDS Integers, Sequences, FiniteSets, TLC

VARIABLES
    messages,   \* Server.messages
    heap,       \* the backing arrays of the []string values (session.to, Email.To)
    mu,         \* Server.mu
    sess,       \* the sessions: their fields and their position in Data
    call,       \* the callers of Email and Clear
    decl,       \* history: what each session's client has declared and sent
    done,       \* history: the transactions completed since the store was last emptied
    scanIn,     \* parseSubject: the body handed to it
    scanOut,    \* parseSubject: the value it returned
    scanDone,   \* parseSubject: has returned
    srv,        \* Start and Stop: their position, the two listeners and serve loops
    logger,     \* Server.logger, and the accesses to it that are under way
    glob        \* globalServer, globalMu, and the servers DefaultServer has made

-----------------------------------------------------------------------------
(* Text helpers: the Go string functions parseSubject calls.               *)

\* bufio.MaxScanTokenSize, the buffer limit of the Scanner that
\* bufio.NewScanner returns.
MaxScanTokenSize == 65536

\* s.smtpServer.MaxLineLength: the longest line the SMTP server takes, 16 MiB.
MaxLineLength == 16777216

\* The filler element and the number of bytes it stands for.
Block == "x*"
BlockLen == MaxScanTokenSize - 1

Width(ch) == IF ch = Block THEN BlockLen ELSE 1

RECURSIVE ByteLen(_)
\* len(s) in bytes.
ByteLen(t) == IF t = <<>> THEN 0 ELSE Width(Head(t)) + ByteLen(Tail(t))

UpperCase == <<"A","B","C","D","E","F","G","H","I","J","K","L","M",
               "N","O","P","Q","R","S","T","U","V","W","X","Y","Z">>
LowerCase == <<"a","b","c","d","e","f","g","h","i","j","k","l","m",
               "n","o","p","q","r","s","t","u","v","w","x","y","z">>

LowerChar(ch) ==
    IF \E i \in 1..26 : UpperCase[i] = ch
    THEN LowerCase[CHOOSE i \in 1..26 : UpperCase[i] = ch]
    ELSE ch

\* strings.ToLower
ToLower(t) == [i \in 1..Len(t) |-> LowerChar(t[i])]

\* strings.HasPrefix; a Block is BlockLen bytes of "x", so a text and a
\* prefix of single characters are compared element by element.
HasPrefix(t, p) ==
    /\ Len(t) >= Len(p)
    /\ \A i \in 1..Len(p) : t[i] = p[i]

\* The characters strings.TrimSpace removes.
AsciiSpace == {" ", "\t", "\n", "\r", "\f"}

RECURSIVE TrimLeft(_)
TrimLeft(t) ==
    IF t # <<>> /\ Head(t) \in AsciiSpace THEN TrimLeft(Tail(t)) ELSE t

RECURSIVE TrimRight(_)
TrimRight(t) ==
    IF t # <<>> /\ t[Len(t)] \in AsciiSpace
    THEN TrimRight(SubSeq(t, 1, Len(t) - 1))
    ELSE t

\* strings.TrimSpace
TrimSpace(t) == TrimRight(TrimLeft(t))

\* bytes.IndexByte, 1-based; 0 when the byte does not occur.
IndexByte(t, ch) ==
    IF \E i \in 1..Len(t) : t[i] = ch
    THEN CHOOSE i \in 1..Len(t) : t[i] = ch /\ \A j \in 1..(i - 1) : t[j] # ch
    ELSE 0

\* bufio.dropCR
dropCR(t) ==
    IF t # <<>> /\ t[Len(t)] = "\r" THEN SubSeq(t, 1, Len(t) - 1) ELSE t

SubjectPrefix == <<"s","u","b","j","e","c","t",":">>

RECURSIVE ScanFrom(_)
\* The loop of parseSubject over the unread part of the body.  One round is
\* one scanner.Scan() with bufio.ScanLines: the token ends at the first "\n"
\* (or at the end of the input), one trailing "\r" is dropped.  Scan returns
\* false at the end of the input, and also (ErrTooLong) when the bytes before
\* the "\n" fill the buffer of MaxScanTokenSize bytes.
ScanFrom(data) ==
    IF data = <<>> THEN <<>>
    ELSE LET i    == IndexByte(data, "\n")
             raw  == IF i > 0 THEN SubSeq(data, 1, i - 1) ELSE data
             rest == IF i > 0 THEN SubSeq(data, i + 1, Len(data)) ELSE <<>>
             line == dropCR(raw)
         IN  IF ByteLen(raw) >= MaxScanTokenSize THEN <<>>
             ELSE IF line = <<>> THEN <<>>
             ELSE IF HasPrefix(ToLower(line), SubjectPrefix)
                  THEN TrimSpace(SubSeq(line, 9, Len(line)))
                  ELSE ScanFrom(rest)

\* parseSubject extracts the Subject header from email body.
parseSubject(body) == ScanFrom(body)

-----------------------------------------------------------------------------
(* Values.                                                                 *)

Sessions == {"s1", "s2"}
Callers  == {"c1", "c2"}

\* A []string: the backing array it points to (0: nil) and its length.  Its
\* capacity is the length of the backing array.
NilSlice == [arr |-> 0, len |-> 0]

Elems(h, sl) == IF sl.arr = 0 THEN <<>> ELSE SubSeq(h[sl.arr], 1, sl.len)

Cap(h, sl) == IF sl.arr = 0 THEN 0 ELSE Len(h[sl.arr])

\* The smallest address no live array has.
FreshArr(h) ==
    CHOOSE a \in 1..(Cardinality(DOMAIN h) + 1) :
        /\ a \notin DOMAIN h
        /\ \A b \in 1..(a - 1) : b \in DOMAIN h

RECURSIVE Zeros(_)
Zeros(n) == IF n = 0 THEN <<>> ELSE <<"">> \o Zeros(n - 1)

\* append(sl, x) for a []string: in place when the capacity allows, else into
\* a new backing array of twice the capacity.  The result is the new heap and
\* the new slice.
AppendStr(h, sl, x) ==
    IF sl.len < Cap(h, sl)
    THEN [heap  |-> [h EXCEPT ![sl.arr][sl.len + 1] = x],
          slice |-> [arr |-> sl.arr, len |-> sl.len + 1]]
    ELSE LET a      == FreshArr(h)
             newcap == IF Cap(h, sl) = 0 THEN 1 ELSE 2 * Cap(h, sl)
             arr    == Elems(h, sl) \o <<x>> \o Zeros(newcap - sl.len - 1)
         IN  [heap  |-> [b \in DOMAIN h \cup {a} |-> IF b = a THEN arr ELSE h[b]],
              slice |-> [arr |-> a, len |-> sl.len + 1]]

\* The zero value of Email.
ZeroEmail ==
    [ID |-> "", From |-> "", Subject |-> <<>>, Body |-> <<>>, Time |-> 0, To |-> NilSlice]

Digit == <<"0","1","2","3","4","5","6","7","8","9">>

RECURSIVE Itoa(_)
\* The verb %d: the decimal digits of n.
Itoa(n) == IF n < 10 THEN Digit[n + 1] ELSE Itoa(n \div 10) \o Digit[(n % 10) + 1]

\* fmt.Sprintf("msg-%d", n)
FormatID(n) == "msg-" \o Itoa(n)

\* A session as backend.NewSession returns it, with the locals of Data: the
\* bytes of the body still to be read (wire), the bytes io.ReadAll has read
\* (buf), the Email being built, and the latest call made on the session
\* (last; "Data_nil" and "Data_err" once Data has returned nil or an error).
NewSess ==
    [from |-> "", to |-> NilSlice, pc |-> "idle",
     wire |-> <<>>, buf |-> <<>>, email |-> ZeroEmail, last |-> "New"]

NoDecl == [mail |-> "", rcpt |-> <<>>, sent |-> <<>>]

\* The body of an HTTP response: nothing, the text of http.Error, one Email as
\* JSON (obj, a sequence of one object), or the object handleGetEmails encodes.
NoBody ==
    [kind |-> "none", text |-> "", obj |-> <<>>, total |-> 0, count |-> 0, items |-> <<>>]

\* A caller between two calls.  For a request to the HTTP API the caller also
\* holds the request (meth, path) and the response (status, hdr, out).
IdleCall ==
    [pc |-> "idle", id |-> "", ret |-> <<>>, kept |-> <<>>,
     meth |-> "", path |-> <<>>, status |-> 0, hdr |-> {}, out |-> NoBody]

\* The server once Start has returned nil: both listeners are bound and both
\* serve loops run.
Started ==
    [pc |-> "done", ret |-> "nil",
     smtpL |-> "bound", smtpLoop |-> "serving",
     httpL |-> "bound", httpLoop |-> "serving",
     smtpReg |-> TRUE, httpReg |-> TRUE, smtpDone |-> FALSE, httpDown |-> FALSE,
     stop |-> "idle", stopRet |-> "", ctx |-> "live", cut |-> {}]

\* The server as New returns it: no listener, no serve loop, Start not called.
NotStarted ==
    [pc |-> "new", ret |-> "",
     smtpL |-> "none", smtpLoop |-> "none",
     httpL |-> "none", httpLoop |-> "none",
     smtpReg |-> FALSE, httpReg |-> FALSE, smtpDone |-> FALSE, httpDown |-> FALSE,
     stop |-> "idle", stopRet |-> "", ctx |-> "live", cut |-> {}]

\* The arrays something still points to; the others are garbage.
Live(m, ss, cs) ==
    ( { m[i].To.arr : i \in 1..Len(m) }
      \cup { ss[s].to.arr : s \in Sessions }
      \cup { ss[s].email.To.arr : s \in Sessions }
      \cup UNION { { cs[c].ret[i].To.arr : i \in 1..Len(cs[c].ret) } : c \in Callers }
      \cup UNION { { cs[c].kept[i].To.arr : i \in 1..Len(cs[c].kept) } : c \in Callers } )
    \ {0}

Collect(h, m, ss, cs) == [a \in Live(m, ss, cs) \cap DOMAIN h |-> h[a]]

\* Server.logger as New leaves it: nil, no goroutine reading or writing it
\* (acc holds the accesses under way: who, read or write, and whether the
\* goroutine holds mu), and nothing read from it yet by a serve goroutine.
NoLogger == [val |-> "nil", acc |-> {}, seen |-> ""]

\* A goroutine that calls DefaultServer, StopDefault and Stop: where it is, the
\* *Server it holds (the one its latest DefaultServer made or returned; 0 is
\* nil) and the latest error.
NoThread == [pc |-> "idle", ret |-> 0, err |-> ""]

\* The package variables before any call: globalServer nil (0), globalMu free.
\* The servers New has made are numbered from 1 (made is the latest); held are
\* the ports that a server made earlier still holds; epoch counts the
\* StopDefault calls that found a server, and got is the history of the
\* servers that DefaultServer has returned, each with the epoch of the return.
NoGlobal ==
    [server |-> 0, mu |-> "", made |-> 0, held |-> {}, epoch |-> 0, got |-> {},
     thr |-> [t \in Callers |-> NoThread]]

\* A lock that never waits: addMessage without s.mu.Lock().
CanLock_NeverWaits(m) == TRUE

\* A read lock that never waits: Emails and Email without s.mu.RLock().
CanRLock_NeverWaits(m) == TRUE

\* sync.RWMutex: Lock waits for the writer and the readers to leave, RLock for
\* the writer and for a Lock that is pending (p): a Lock that waits for the
\* readers to leave keeps new readers out.
CanLock(m)  == m.w = "" /\ m.r = {}
CanRLock(m) == m.w = "" /\ m.p = ""

StoreInit ==
    /\ messages = <<>>
    /\ heap = <<>>
    /\ mu = [w |-> "", r |-> {}, p |-> ""]
    /\ sess = [s \in Sessions |-> NewSess]
    /\ call = [c \in Callers |-> IdleCall]
    /\ decl = [s \in Sessions |-> NoDecl]
    /\ done = <<>>
    /\ srv = Started
    /\ logger = NoLogger
    /\ glob = NoGlobal

storeVars == <<messages, heap, mu, sess, call, decl, done, srv, logger, glob>>
scanVars  == <<scanIn, scanOut, scanDone>>
restVars  == <<logger, glob>>
vars      == <<messages, heap, mu, sess, call, decl, done, scanIn, scanOut, scanDone, srv, logger, glob>>

Idle(s) == sess[s].pc = "idle"

-----------------------------------------------------------------------------
(* The session: one per connection, driven by the connection's goroutine.  *)

\* func (b *backend) NewSession: the connection in slot s is replaced by a
\* new one.
NewSession(s) ==
    /\ Idle(s)
    /\ sess' = [sess EXCEPT ![s] = NewSess]
    /\ decl' = [decl EXCEPT ![s] = NoDecl]
    /\ heap' = Collect(heap, messages, sess', call)
    /\ UNCHANGED <<messages, mu, call, done, scanVars, srv, restVars>>

\* func (s *session) AuthPlain(username, password string) error: returns nil.
AuthPlain(s, username, password) ==
    /\ Idle(s)
    /\ sess' = [sess EXCEPT ![s].last = "AuthPlain"]
    /\ UNCHANGED <<messages, heap, mu, call, decl, done, scanVars, srv, restVars>>

\* func (s *session) Mail
Mail(s, a) ==
    /\ Idle(s)
    /\ sess' = [sess EXCEPT ![s].from = a, ![s].last = "Mail"]
    /\ decl' = [decl EXCEPT ![s].mail = a]
    /\ UNCHANGED <<messages, heap, mu, call, done, scanVars, srv, restVars>>

\* A Rcpt that assigns s.to = []string{to} in place of the append.
Rcpt_Replaces(s, a) ==
    /\ Idle(s)
    /\ LET r == AppendStr(heap, NilSlice, a)
       IN  /\ sess' = [sess EXCEPT ![s].to = r.slice, ![s].last = "Rcpt"]
           /\ heap' = Collect(r.heap, messages, sess', call)
    /\ decl' = [decl EXCEPT ![s].rcpt = Append(@, a)]
    /\ UNCHANGED <<messages, mu, call, done, scanVars, srv, restVars>>

\* A Rcpt that stores the address over the last one declared, s.to[len-1] = to,
\* once the list is not empty.
Rcpt_Overwrites(s, a) ==
    /\ Idle(s)
    /\ LET r == IF sess[s].to.len = 0
                THEN AppendStr(heap, sess[s].to, a)
                ELSE [heap  |-> [heap EXCEPT ![sess[s].to.arr][sess[s].to.len] = a],
                      slice |-> sess[s].to]
       IN  /\ sess' = [sess EXCEPT ![s].to = r.slice, ![s].last = "Rcpt"]
           /\ heap' = Collect(r.heap, messages, sess', call)
    /\ decl' = [decl EXCEPT ![s].rcpt = Append(@, a)]
    /\ UNCHANGED <<messages, mu, call, done, scanVars, srv, restVars>>

\* func (s *session) Rcpt
Rcpt(s, a) ==
    /\ Idle(s)
    /\ LET r == AppendStr(heap, sess[s].to, a)
       IN  /\ sess' = [sess EXCEPT ![s].to = r.slice, ![s].last = "Rcpt"]
           /\ heap' = Collect(r.heap, messages, sess', call)
    /\ decl' = [decl EXCEPT ![s].rcpt = Append(@, a)]
    /\ UNCHANGED <<messages, mu, call, done, scanVars, srv, restVars>>

\* A Reset that leaves s.to as it is.
Reset_KeepsRecipients(s) ==
    /\ Idle(s)
    /\ sess' = [sess EXCEPT ![s].from = "", ![s].last = "Reset"]
    /\ decl' = [decl EXCEPT ![s].mail = "", ![s].rcpt = <<>>]
    /\ heap' = Collect(heap, messages, sess', call)
    /\ UNCHANGED <<messages, mu, call, done, scanVars, srv, restVars>>

\* func (s *session) Reset
Reset(s) ==
    /\ Idle(s)
    /\ sess' = [sess EXCEPT ![s].from = "", ![s].to = NilSlice, ![s].last = "Reset"]
    /\ decl' = [decl EXCEPT ![s].mail = "", ![s].rcpt = <<>>]
    /\ heap' = Collect(heap, messages, sess', call)
    /\ UNCHANGED <<messages, mu, call, done, scanVars, srv, restVars>>

\* func (s *session) Logout
Logout(s) ==
    /\ Idle(s)
    /\ sess' = [sess EXCEPT ![s].last = "Logout"]
    /\ UNCHANGED <<messages, heap, mu, call, decl, done, scanVars, srv, restVars>>

\* A Data that takes the store's lock before it reads the body.
Data_Call_LocksFirst(s, payload) ==
    /\ Idle(s)
    /\ CanLock(mu)
    /\ mu.p \in {"", s}
    /\ mu' = [mu EXCEPT !.w = s, !.p = ""]
    /\ sess' = [sess EXCEPT ![s].pc = "read", ![s].wire = payload,
                            ![s].buf = <<>>, ![s].last = "Data"]
    /\ decl' = [decl EXCEPT ![s].sent = payload]
    /\ UNCHANGED <<messages, heap, call, done, scanVars, srv, restVars>>

\* A Data that refuses a transaction with no sender: it returns an error
\* before reading.
Data_Call_Validates(s, payload) ==
    /\ Idle(s)
    /\ sess' = IF sess[s].from = ""
                 THEN [sess EXCEPT ![s].last = "Data_err"]
                 ELSE [sess EXCEPT ![s].pc = "read", ![s].wire = payload,
                                   ![s].buf = <<>>, ![s].last = "Data"]
    /\ decl' = [decl EXCEPT ![s].sent = IF sess[s].from = "" THEN <<>> ELSE payload]
    /\ UNCHANGED <<messages, heap, mu, call, done, scanVars, srv, restVars>>

\* func (s *session) Data is called; the client transmits payload.
Data_Call(s, payload) ==
    /\ Idle(s)
    /\ sess' = [sess EXCEPT ![s].pc = "read", ![s].wire = payload,
                            ![s].buf = <<>>, ![s].last = "Data"]
    /\ decl' = [decl EXCEPT ![s].sent = payload]
    /\ UNCHANGED <<messages, heap, mu, call, done, scanVars, srv, restVars>>

\* io.ReadAll: one Read that returns the next n bytes.
Data_Read(s, n) ==
    /\ sess[s].pc = "read"
    /\ n \in 1..Len(sess[s].wire)
    /\ sess' = [sess EXCEPT ![s].buf  = @ \o SubSeq(sess[s].wire, 1, n),
                            ![s].wire = SubSeq(@, n + 1, Len(@))]
    /\ UNCHANGED <<messages, heap, mu, call, decl, done, scanVars, srv, restVars>>

\* A Data that ignores the error of io.ReadAll and goes on with the bytes read
\* so far.
Data_ReadErr_KeepsPartial(s) ==
    /\ sess[s].pc = "read"
    /\ sess' = [sess EXCEPT
                  ![s].pc = "built",
                  ![s].wire = <<>>,
                  ![s].email = [ZeroEmail EXCEPT
                                  !.From    = sess[s].from,
                                  !.To      = sess[s].to,
                                  !.Subject = parseSubject(sess[s].buf),
                                  !.Body    = sess[s].buf]]
    /\ UNCHANGED <<messages, heap, mu, call, decl, done, scanVars, srv, restVars>>

\* A Data that returns nil when io.ReadAll fails.
Data_ReadErr_ReturnsNil(s) ==
    /\ sess[s].pc = "read"
    /\ sess' = [sess EXCEPT ![s].pc = "idle", ![s].wire = <<>>,
                            ![s].buf = <<>>, ![s].last = "Data_nil"]
    /\ decl' = [decl EXCEPT ![s].sent = <<>>]
    /\ UNCHANGED <<messages, heap, mu, call, done, scanVars, srv, restVars>>

\* io.ReadAll: a Read fails; Data returns the wrapped error.
Data_ReadErr(s) ==
    /\ sess[s].pc = "read"
    /\ sess' = [sess EXCEPT ![s].pc = "idle", ![s].wire = <<>>,
                            ![s].buf = <<>>, ![s].last = "Data_err"]
    /\ decl' = [decl EXCEPT ![s].sent = <<>>]
    /\ UNCHANGED <<messages, heap, mu, call, done, scanVars, srv, restVars>>

\* io.ReadAll: the Read at the end of the payload returns io.EOF; Data parses
\* the subject and builds the Email.
Data_ReadEOF(s) ==
    /\ sess[s].pc = "read"
    /\ sess[s].wire = <<>>
    /\ sess' = [sess EXCEPT
                  ![s].pc = "built",
                  ![s].email = [ZeroEmail EXCEPT
                                  !.From    = sess[s].from,
                                  !.To      = sess[s].to,
                                  !.Subject = parseSubject(sess[s].buf),
                                  !.Body    = sess[s].buf]]
    /\ UNCHANGED <<messages, heap, mu, call, decl, done, scanVars, srv, restVars>>

\* addMessage: s.mu.Lock()
addMessage_Lock(s) ==
    /\ sess[s].pc = "built"
    /\ CanLock(mu)
    /\ mu.p \in {"", s}
    /\ mu' = [mu EXCEPT !.w = s, !.p = ""]
    /\ sess' = [sess EXCEPT ![s].pc = "locked"]
    /\ UNCHANGED <<messages, heap, call, decl, done, scanVars, srv, restVars>>

\* An addMessage that numbers the records from one: the ID is taken from the
\* length the store will have.
addMessage_Stamp_FromOne(s, t) ==
    /\ sess[s].pc = "locked"
    /\ sess' = [sess EXCEPT ![s].pc = "stamped",
                            ![s].email.ID = FormatID(Len(messages) + 1),
                            ![s].email.Time = t]
    /\ UNCHANGED <<messages, heap, mu, call, decl, done, scanVars, srv, restVars>>

\* addMessage: email.ID = fmt.Sprintf("msg-%d", len(s.messages));
\* email.Time = time.Now()
addMessage_Stamp(s, t) ==
    /\ sess[s].pc = "locked"
    /\ sess' = [sess EXCEPT ![s].pc = "stamped",
                            ![s].email.ID = FormatID(Len(messages)),
                            ![s].email.Time = t]
    /\ UNCHANGED <<messages, heap, mu, call, decl, done, scanVars, srv, restVars>>

\* addMessage: s.messages = append(s.messages, email)
addMessage_Append(s) ==
    /\ sess[s].pc = "stamped"
    /\ messages' = Append(messages, sess[s].email)
    /\ sess' = [sess EXCEPT ![s].pc = "appended"]
    /\ UNCHANGED <<heap, mu, call, decl, done, scanVars, srv, restVars>>

\* addMessage: the deferred s.mu.Unlock(); Data returns nil.
addMessage_Unlock(s) ==
    /\ sess[s].pc = "appended"
    /\ mu' = [mu EXCEPT !.w = ""]
    /\ sess' = [sess EXCEPT ![s].pc = "idle", ![s].wire = <<>>, ![s].buf = <<>>,
                            ![s].email = ZeroEmail, ![s].last = "Data_nil"]
    /\ done' = Append(done, [From |-> decl[s].mail, To |-> decl[s].rcpt,
                             Body |-> decl[s].sent])
    /\ decl' = [decl EXCEPT ![s].sent = <<>>]
    /\ heap' = Collect(heap, messages, sess', call)
    /\ UNCHANGED <<messages, call, scanVars, srv, restVars>>

-----------------------------------------------------------------------------
(* The callers of the Server's API.                                        *)

\* s.mu.Lock() in addMessage (x is a session that has built its Email) or in
\* Clear (x is a caller): the Lock is pending.  It has the turn among the
\* writers and waits for the readers to leave.
Lock_Pending(x) ==
    /\ mu.w = ""
    /\ mu.p = ""
    /\ \/ x \in Sessions /\ sess[x].pc = "built"
       \/ x \in Callers /\ call[x].pc = "idle"
    /\ mu' = [mu EXCEPT !.p = x]
    /\ UNCHANGED <<messages, heap, sess, call, decl, done, scanVars, srv, restVars>>

\* Clear: s.mu.Lock()
Clear_Lock(c) ==
    /\ call[c].pc = "idle"
    /\ CanLock(mu)
    /\ mu.p \in {"", c}
    /\ mu' = [mu EXCEPT !.w = c, !.p = ""]
    /\ call' = [call EXCEPT ![c].pc = "clear"]
    /\ UNCHANGED <<messages, heap, sess, decl, done, scanVars, srv, restVars>>

\* A Clear that drops the oldest record only: s.messages = s.messages[1:]
Clear_Make_DropsOldest(c) ==
    /\ call[c].pc = "clear"
    /\ messages' = IF messages = <<>> THEN <<>> ELSE Tail(messages)
    /\ call' = [call EXCEPT ![c].pc = "cleared"]
    /\ heap' = Collect(heap, messages', sess, call')
    /\ done' = <<>>
    /\ UNCHANGED <<mu, sess, decl, scanVars, srv, restVars>>

\* A Clear that does not replace s.messages.
Clear_Make_KeepsAll(c) ==
    /\ call[c].pc = "clear"
    /\ call' = [call EXCEPT ![c].pc = "cleared"]
    /\ done' = <<>>
    /\ UNCHANGED <<messages, heap, mu, sess, decl, scanVars, srv, restVars>>

\* Clear: s.messages = make([]Email, 0)
Clear_Make(c) ==
    /\ call[c].pc = "clear"
    /\ messages' = <<>>
    /\ call' = [call EXCEPT ![c].pc = "cleared"]
    /\ heap' = Collect(heap, messages', sess, call')
    /\ done' = <<>>
    /\ UNCHANGED <<mu, sess, decl, scanVars, srv, restVars>>

\* Clear: the deferred s.mu.Unlock()
Clear_Unlock(c) ==
    /\ call[c].pc = "cleared"
    /\ mu' = [mu EXCEPT !.w = ""]
    /\ call' = [call EXCEPT ![c].pc = "idle"]
    /\ UNCHANGED <<messages, heap, sess, decl, done, scanVars, srv, restVars>>

RECURSIVE FindFrom(_, _, _)
\* The loop of Email: the first record from index i on whose ID is id, as a
\* pointer to a copy of it (a sequence of one record); nil (the empty
\* sequence) when the loop ends.
FindFrom(m, id, i) ==
    IF i > Len(m) THEN <<>>
    ELSE IF m[i].ID = id THEN << m[i] >>
    ELSE FindFrom(m, id, i + 1)

\* Email: s.mu.RLock()
Email_RLock(c, id) ==
    /\ call[c].pc = "idle"
    /\ CanRLock(mu)
    /\ mu' = [mu EXCEPT !.r = @ \cup {c}]
    /\ call' = [call EXCEPT ![c].pc = "get", ![c].id = id]
    /\ UNCHANGED <<messages, heap, sess, decl, done, scanVars, srv, restVars>>

\* An Email whose loop starts at the second record.
Email_Find_SkipsFirst(c) ==
    /\ call[c].pc = "get"
    /\ call' = [call EXCEPT ![c].pc = "got", ![c].ret = FindFrom(messages, call[c].id, 2)]
    /\ UNCHANGED <<messages, heap, mu, sess, decl, done, scanVars, srv, restVars>>

\* Email: the loop over s.messages.
Email_Find(c) ==
    /\ call[c].pc = "get"
    /\ call' = [call EXCEPT ![c].pc = "got", ![c].ret = FindFrom(messages, call[c].id, 1)]
    /\ UNCHANGED <<messages, heap, mu, sess, decl, done, scanVars, srv, restVars>>

\* Email: the deferred s.mu.RUnlock(); the caller is handed the result, and
\* either keeps a record it was given (keep) or lets it go.
Email_RUnlock(c, keep) ==
    /\ call[c].pc = "got"
    /\ mu' = [mu EXCEPT !.r = @ \ {c}]
    /\ call' = [call EXCEPT ![c].pc = "idle", ![c].id = "", ![c].ret = <<>>,
                            ![c].kept = IF keep /\ call[c].ret # <<>> THEN call[c].ret ELSE @]
    /\ heap' = Collect(heap, messages, sess, call')
    /\ UNCHANGED <<messages, sess, decl, done, scanVars, srv, restVars>>

\* Emails: s.mu.RLock()
Emails_RLock(c) ==
    /\ call[c].pc = "idle"
    /\ CanRLock(mu)
    /\ mu' = [mu EXCEPT !.r = @ \cup {c}]
    /\ call' = [call EXCEPT ![c].pc = "list"]
    /\ UNCHANGED <<messages, heap, sess, decl, done, scanVars, srv, restVars>>

\* An Emails that fills its copy from the last record to the first.
Emails_Copy_Reversed(c) ==
    /\ call[c].pc = "list"
    /\ call' = [call EXCEPT
                  ![c].pc = "listed",
                  ![c].ret = [i \in 1..Len(messages) |-> messages[Len(messages) + 1 - i]]]
    /\ UNCHANGED <<messages, heap, mu, sess, decl, done, scanVars, srv, restVars>>

\* An Emails that makes its copy one record short.
Emails_Copy_DropsLast(c) ==
    /\ call[c].pc = "list"
    /\ call' = [call EXCEPT ![c].pc = "listed",
                            ![c].ret = SubSeq(messages, 1, Len(messages) - 1)]
    /\ UNCHANGED <<messages, heap, mu, sess, decl, done, scanVars, srv, restVars>>

\* Emails: emails := make([]Email, len(s.messages)); copy(emails, s.messages)
Emails_Copy(c) ==
    /\ call[c].pc = "list"
    /\ call' = [call EXCEPT ![c].pc = "listed", ![c].ret = messages]
    /\ UNCHANGED <<messages, heap, mu, sess, decl, done, scanVars, srv, restVars>>

\* Emails: the deferred s.mu.RUnlock(); the caller is handed the copy.
Emails_RUnlock(c, keep) ==
    /\ call[c].pc = "listed"
    /\ mu' = [mu EXCEPT !.r = @ \ {c}]
    /\ call' = [call EXCEPT ![c].pc = "idle", ![c].ret = <<>>,
                            ![c].kept = IF keep THEN call[c].ret ELSE @]
    /\ heap' = Collect(heap, messages, sess, call')
    /\ UNCHANGED <<messages, sess, decl, done, scanVars, srv, restVars>>

\* A caller assigns to a field of a record it was handed:
\* emails[i].From = a, or email.From = a through the pointer Email returned.
Caller_SetFrom(c, i, a) ==
    /\ call[c].pc = "idle"
    /\ i \in 1..Len(call[c].kept)
    /\ call[c].kept[i].From # a
    /\ call' = [call EXCEPT ![c].kept[i].From = a]
    /\ UNCHANGED <<messages, heap, mu, sess, decl, done, scanVars, srv, restVars>>

\* A caller assigns to an element of the recipient list of a record it was
\* handed: emails[i].To[j] = a.  The list is a slice: the element is written
\* in the backing array the slice points to.
Caller_SetTo(c, i, j, a) ==
    /\ call[c].pc = "idle"
    /\ i \in 1..Len(call[c].kept)
    /\ j \in 1..call[c].kept[i].To.len
    /\ heap[call[c].kept[i].To.arr][j] # a
    /\ heap' = [heap EXCEPT ![call[c].kept[i].To.arr][j] = a]
    /\ UNCHANGED <<messages, mu, sess, call, decl, done, scanVars, srv, restVars>>

-----------------------------------------------------------------------------
(* The HTTP API: corsMiddleware around the ServeMux of New and its three   *)
(* handlers.  A path is a pair: the directory part and what follows it.    *)

EmailsPath == "/api/v1/emails"
EmailPrefix == "/api/v1/emails/"

\* The headers corsMiddleware sets on every response.
CorsHeaders ==
    { <<"Access-Control-Allow-Origin", "*">>,
      <<"Access-Control-Allow-Methods", "GET, POST, DELETE, OPTIONS">>,
      <<"Access-Control-Allow-Headers", "Content-Type">> }

\* w.Header().Set(name, value)
SetHeader(hdr, name, value) == { h \in hdr : h[1] # name } \cup { <<name, value>> }

\* The handler the ServeMux of New picks: the patterns "GET /api/v1/emails",
\* "GET /api/v1/emails/" (a subtree) and "DELETE /api/v1/emails".  A path no
\* pattern matches is answered 404, a path that matches with another method 405.
Route(meth, path) ==
    IF path = <<EmailsPath, "">>
    THEN IF meth = "GET" THEN "handleGetEmails"
         ELSE IF meth = "DELETE" THEN "handleDeleteEmails"
         ELSE "405"
    ELSE IF path[1] = EmailPrefix
    THEN IF meth = "GET" THEN "handleGetEmail" ELSE "405"
    ELSE "404"

Routed(c, handler) ==
    /\ call[c].pc = "routed"
    /\ Route(call[c].meth, call[c].path) = handler

\* http.Error(w, text, code)
ErrorReply(cl, text, code) ==
    [cl EXCEPT !.pc = "responded", !.status = code, !.ret = <<>>,
               !.hdr = SetHeader(SetHeader(@, "Content-Type", "text/plain; charset=utf-8"),
                                 "X-Content-Type-Options", "nosniff"),
               !.out = [NoBody EXCEPT !.kind = "text", !.text = text]]

\* json.NewEncoder(w).Encode of an Email: the fields under their JSON names;
\* a nil To is encoded as null, any other as the array of its elements.
Json(h, e) ==
    [id |-> e.ID, from |-> e.From, subject |-> e.Subject, body |-> e.Body,
     time |-> e.Time, toNull |-> (e.To.arr = 0), to |-> Elems(h, e.To)]

\* A middleware that passes OPTIONS requests on to the ServeMux as well.
corsMiddleware_PassesOptions(c, meth, path) ==
    /\ call[c].pc = "idle"
    /\ call' = [call EXCEPT
                  ![c] = [IdleCall EXCEPT
                            !.kept = call[c].kept,
                            !.meth = meth,
                            !.path = path,
                            !.hdr = CorsHeaders,
                            !.pc = "routed"]]
    /\ UNCHANGED <<messages, heap, mu, sess, decl, done, scanVars, srv, restVars>>

\* corsMiddleware: the three headers are set; an OPTIONS request is answered
\* 204 at once, any other is passed to the ServeMux.
corsMiddleware(c, meth, path) ==
    /\ call[c].pc = "idle"
    /\ call' = [call EXCEPT
                  ![c] = [IdleCall EXCEPT
                            !.kept = call[c].kept,
                            !.meth = meth,
                            !.path = path,
                            !.hdr = CorsHeaders,
                            !.pc = IF meth = "OPTIONS" THEN "responded" ELSE "routed",
                            !.status = IF meth = "OPTIONS" THEN 204 ELSE 0]]
    /\ UNCHANGED <<messages, heap, mu, sess, decl, done, scanVars, srv, restVars>>

\* The ServeMux finds no handler.
ServeMux_NoHandler(c) ==
    /\ call[c].pc = "routed"
    /\ \/ /\ Route(call[c].meth, call[c].path) = "404"
          /\ call' = [call EXCEPT ![c] = ErrorReply(@, "404 page not found", 404)]
       \/ /\ Route(call[c].meth, call[c].path) = "405"
          /\ call' = [call EXCEPT ![c] = ErrorReply(@, "Method Not Allowed", 405)]
    /\ UNCHANGED <<messages, heap, mu, sess, decl, done, scanVars, srv, restVars>>

\* handleGetEmails: emails := s.Emails(), up to s.mu.RLock()
handleGetEmails_RLock(c) ==
    /\ Routed(c, "handleGetEmails")
    /\ CanRLock(mu)
    /\ mu' = [mu EXCEPT !.r = @ \cup {c}]
    /\ call' = [call EXCEPT ![c].pc = "list"]
    /\ UNCHANGED <<messages, heap, sess, decl, done, scanVars, srv, restVars>>

\* handleGetEmails: s.Emails() returns, the deferred s.mu.RUnlock()
handleGetEmails_RUnlock(c) ==
    /\ call[c].pc = "listed"
    /\ call[c].meth # ""
    /\ mu' = [mu EXCEPT !.r = @ \ {c}]
    /\ call' = [call EXCEPT ![c].pc = "encode"]
    /\ UNCHANGED <<messages, heap, sess, decl, done, scanVars, srv, restVars>>

\* A handleGetEmails that takes total from the store as it is when the
\* response is written.
handleGetEmails_Write_Recounts(c) ==
    /\ call[c].pc = "encode"
    /\ Route(call[c].meth, call[c].path) = "handleGetEmails"
    /\ LET emails == call[c].ret
       IN  call' = [call EXCEPT
                      ![c].pc = "responded",
                      ![c].status = 200,
                      ![c].ret = <<>>,
                      ![c].hdr = SetHeader(@, "Content-Type", "application/json"),
                      ![c].out = [NoBody EXCEPT
                                    !.kind = "list",
                                    !.total = Len(messages),
                                    !.count = Len(emails),
                                    !.items = [i \in 1..Len(emails) |-> Json(heap, emails[i])]]]
    /\ heap' = Collect(heap, messages, sess, call')
    /\ UNCHANGED <<messages, mu, sess, decl, done, scanVars, srv, restVars>>

\* handleGetEmails: the response {total, count, items} is encoded.
handleGetEmails_Write(c) ==
    /\ call[c].pc = "encode"
    /\ Route(call[c].meth, call[c].path) = "handleGetEmails"
    /\ LET emails == call[c].ret
       IN  call' = [call EXCEPT
                      ![c].pc = "responded",
                      ![c].status = 200,
                      ![c].ret = <<>>,
                      ![c].hdr = SetHeader(@, "Content-Type", "application/json"),
                      ![c].out = [NoBody EXCEPT
                                    !.kind = "list",
                                    !.total = Len(emails),
                                    !.count = Len(emails),
                                    !.items = [i \in 1..Len(emails) |-> Json(heap, emails[i])]]]
    /\ heap' = Collect(heap, messages, sess, call')
    /\ UNCHANGED <<messages, mu, sess, decl, done, scanVars, srv, restVars>>

\* handleGetEmail: the id is the path after "/api/v1/emails/"; an empty id is
\* answered with http.StatusBadRequest.
handleGetEmail_NoID(c) ==
    /\ Routed(c, "handleGetEmail")
    /\ call[c].path[2] = ""
    /\ call' = [call EXCEPT ![c] = ErrorReply(@, "Email ID is required", 400)]
    /\ UNCHANGED <<messages, heap, mu, sess, decl, done, scanVars, srv, restVars>>

\* handleGetEmail: email := s.Email(id), up to s.mu.RLock()
handleGetEmail_RLock(c) ==
    /\ Routed(c, "handleGetEmail")
    /\ call[c].path[2] # ""
    /\ CanRLock(mu)
    /\ mu' = [mu EXCEPT !.r = @ \cup {c}]
    /\ call' = [call EXCEPT ![c].pc = "get", ![c].id = call[c].path[2]]
    /\ UNCHANGED <<messages, heap, sess, decl, done, scanVars, srv, restVars>>

\* handleGetEmail: s.Email(id) returns, the deferred s.mu.RUnlock()
handleGetEmail_RUnlock(c) ==
    /\ call[c].pc = "got"
    /\ call[c].meth # ""
    /\ mu' = [mu EXCEPT !.r = @ \ {c}]
    /\ call' = [call EXCEPT ![c].pc = "encode"]
    /\ UNCHANGED <<messages, heap, sess, decl, done, scanVars, srv, restVars>>

\* handleGetEmail: nil is answered with http.StatusNotFound, a record is
\* encoded.
handleGetEmail_Write(c) ==
    /\ call[c].pc = "encode"
    /\ Route(call[c].meth, call[c].path) = "handleGetEmail"
    /\ LET email == call[c].ret
       IN  IF email = <<>>
           THEN call' = [call EXCEPT ![c] = ErrorReply(@, "Email not found", 404)]
           ELSE call' = [call EXCEPT
                           ![c].pc = "responded",
                           ![c].status = 200,
                           ![c].ret = <<>>,
                           ![c].hdr = SetHeader(@, "Content-Type", "application/json"),
                           ![c].out = [NoBody EXCEPT
                                         !.kind = "email",
                                         !.obj = << Json(heap, email[1]) >>]]
    /\ heap' = Collect(heap, messages, sess, call')
    /\ UNCHANGED <<messages, mu, sess, decl, done, scanVars, srv, restVars>>

\* A handleDeleteEmails that answers without calling s.Clear().
handleDeleteEmails_Lock_Skips(c) ==
    /\ Routed(c, "handleDeleteEmails")
    /\ call' = [call EXCEPT ![c].pc = "reply"]
    /\ UNCHANGED <<messages, heap, mu, sess, decl, done, scanVars, srv, restVars>>

\* handleDeleteEmails: s.Clear(), up to s.mu.Lock()
handleDeleteEmails_Lock(c) ==
    /\ Routed(c, "handleDeleteEmails")
    /\ CanLock(mu)
    /\ mu.p \in {"", c}
    /\ mu' = [mu EXCEPT !.w = c, !.p = ""]
    /\ call' = [call EXCEPT ![c].pc = "clear"]
    /\ UNCHANGED <<messages, heap, sess, decl, done, scanVars, srv, restVars>>

\* handleDeleteEmails: s.Clear() returns, the deferred s.mu.Unlock()
handleDeleteEmails_Unlock(c) ==
    /\ call[c].pc = "cleared"
    /\ call[c].meth # ""
    /\ mu' = [mu EXCEPT !.w = ""]
    /\ call' = [call EXCEPT ![c].pc = "reply"]
    /\ UNCHANGED <<messages, heap, sess, decl, done, scanVars, srv, restVars>>

\* handleDeleteEmails: w.WriteHeader(http.StatusNoContent)
handleDeleteEmails_Write(c) ==
    /\ call[c].pc = "reply"
    /\ call' = [call EXCEPT ![c].pc = "responded", ![c].status = 204]
    /\ UNCHANGED <<messages, heap, mu, sess, decl, done, scanVars, srv, restVars>>

\* The client has the response; the caller is free for its next request.
Http_Done(c) ==
    /\ call[c].pc = "responded"
    /\ call' = [call EXCEPT ![c] = [IdleCall EXCEPT !.kept = call[c].kept]]
    /\ UNCHANGED <<messages, heap, mu, sess, decl, done, scanVars, srv, restVars>>

-----------------------------------------------------------------------------
(* Start, and the two serve loops it starts.  A listener is "none", "bound"  *)
(* or "closed"; a serve loop is "none", "spawned" (the go statement has      *)
(* run), "serving" (inside Serve, accepting), "stopped" (Serve returned      *)
(* after serving) or "failed" (Serve found its listener closed already).     *)

frameVars == <<messages, heap, mu, sess, call, decl, done, scanVars, restVars>>

\* Start: lc.Listen for the SMTP address; Start returns the error when the
\* port cannot be bound.
Start_ListenSMTP(ok) ==
    /\ srv.pc = "new"
    /\ srv' = IF ok THEN [srv EXCEPT !.pc = "go_smtp", !.smtpL = "bound"]
                    ELSE [srv EXCEPT !.pc = "done", !.ret = "err_smtp"]
    /\ UNCHANGED frameVars

\* Start: go func() { s.smtpServer.Serve(smtpListener) }()
Start_GoSMTP ==
    /\ srv.pc = "go_smtp"
    /\ srv' = [srv EXCEPT !.pc = "listen_http", !.smtpLoop = "spawned"]
    /\ UNCHANGED frameVars

\* Start: lc.Listen for the HTTP address; when the port cannot be bound the
\* SMTP listener is closed and Start returns the error.
Start_ListenHTTP(ok) ==
    /\ srv.pc = "listen_http"
    /\ srv' = IF ok THEN [srv EXCEPT !.pc = "go_http", !.httpL = "bound"]
                    ELSE [srv EXCEPT !.pc = "done", !.ret = "err_http", !.smtpL = "closed"]
    /\ UNCHANGED frameVars

\* Start: go func() { s.httpServer.Serve(httpListener) }(); return nil
Start_GoHTTP ==
    /\ srv.pc = "go_http"
    /\ srv' = [srv EXCEPT !.pc = "done", !.ret = "nil", !.httpLoop = "spawned"]
    /\ UNCHANGED frameVars

\* The goroutine of the SMTP server runs: Serve adds the listener to the
\* server's listeners and accepts on it, and returns once the listener is
\* closed.
Smtp_Serve ==
    /\ \/ /\ srv.smtpLoop = "spawned"
          /\ srv' = [srv EXCEPT !.smtpReg = TRUE,
                                !.smtpLoop = IF srv.smtpL = "bound" THEN "serving" ELSE "failed"]
       \/ /\ srv.smtpLoop = "serving"
          /\ srv.smtpL = "closed"
          /\ srv' = [srv EXCEPT !.smtpLoop = "stopped"]
    /\ UNCHANGED frameVars

\* The goroutine of the HTTP server runs: Serve tracks the listener and
\* accepts on it; after Shutdown it closes the listener and returns
\* ErrServerClosed at once.
Http_Serve ==
    /\ srv.httpLoop = "spawned"
    /\ srv' = IF srv.httpDown
                 THEN [srv EXCEPT !.httpLoop = "failed", !.httpL = "closed"]
                 ELSE [srv EXCEPT !.httpLoop = "serving", !.httpReg = TRUE]
    /\ UNCHANGED frameVars

\* The SMTP serve loop accepts a connection: the library asks the backend for
\* a session.
Smtp_Accept(s) ==
    /\ srv.smtpLoop = "serving"
    /\ srv.smtpL = "bound"
    /\ sess[s].last = "None"
    /\ NewSession(s)

\* The session of a connection that has been accepted.
Connected(s) == sess[s].last # "None"

\* The HTTP serve loop finds its listener closed and returns.
Http_ServeEnd ==
    /\ srv.httpLoop = "serving"
    /\ srv.httpL = "closed"
    /\ srv' = [srv EXCEPT !.httpLoop = "stopped"]
    /\ UNCHANGED frameVars

-----------------------------------------------------------------------------
(* Stop(ctx).  smtpDone is the SMTP server's closed flag and httpDown the    *)
(* HTTP server's shutting-down flag; smtpReg and httpReg say that Serve has  *)
(* handed the listener to its server; cut holds the sessions whose           *)
(* connection has been closed under them; ctx is the caller's context.       *)

\* The HTTP requests in flight.
InFlight == {c \in Callers : call[c].pc # "idle"}

\* Stop: s.smtpServer.Close().  A server closed before returns
\* ErrServerClosed, and Stop returns it wrapped.  Otherwise Close closes the
\* listeners Serve has added (the error of closing a closed one is returned)
\* and every open connection, at once.
Stop_CloseSMTP ==
    /\ srv.pc = "done"
    /\ srv.stop = "idle"
    /\ srv' = IF srv.smtpDone \/ (srv.smtpReg /\ srv.smtpL = "closed")
                 THEN [srv EXCEPT !.smtpDone = TRUE, !.stopRet = "err_smtp", !.ctx = "live",
                                  !.cut = IF srv.smtpDone THEN @
                                          ELSE {s \in Sessions : sess[s].last # "None"}]
                 ELSE [srv EXCEPT !.smtpDone = TRUE,
                                  !.smtpL = IF srv.smtpReg THEN "closed" ELSE @,
                                  !.cut = {s \in Sessions : sess[s].last # "None"},
                                  !.stop = "shutdown", !.stopRet = "", !.ctx = "live"]
    /\ UNCHANGED frameVars

\* Stop: s.httpServer.Shutdown(ctx) begins: the server is marked as shutting
\* down and the listeners Serve has tracked are closed.
Stop_ShutdownHTTP ==
    /\ srv.stop = "shutdown"
    /\ srv' = [srv EXCEPT !.httpDown = TRUE, !.stop = "wait",
                          !.httpL = IF srv.httpReg /\ @ = "bound" THEN "closed" ELSE @]
    /\ UNCHANGED frameVars

\* Stop: Shutdown polls until no request is in flight and returns nil, or
\* returns ctx.Err() once ctx is done; Stop returns nil or the wrapped error.
Stop_Wait ==
    /\ srv.stop = "wait"
    /\ \/ /\ InFlight = {}
          /\ srv' = [srv EXCEPT !.stop = "idle", !.stopRet = "nil"]
       \/ /\ InFlight # {}
          /\ srv.ctx = "expired"
          /\ srv' = [srv EXCEPT !.stop = "idle", !.stopRet = "err_http"]
    /\ UNCHANGED frameVars

\* The deadline of the context handed to Stop passes.
Ctx_Expire ==
    /\ srv.stop # "idle"
    /\ srv.ctx = "live"
    /\ srv' = [srv EXCEPT !.ctx = "expired"]
    /\ UNCHANGED frameVars

\* The connection of session s is open: reads of it can succeed.
Open(s) == Connected(s) /\ s \notin srv.cut

\* The HTTP server takes a new request.
Accepting == srv.httpLoop = "serving" /\ srv.httpL = "bound"

\* The SMTP server takes a new connection.
SmtpAccepting == srv.smtpLoop = "serving" /\ srv.smtpL = "bound"

------------------------------------------------------------------------------
(* SetLogger, and the serve goroutine that reports an error of Serve.        *)

\* The loggers a caller passes to SetLogger.
Loggers == {"nil", "L1", "L2"}

\* SetLogger: s.mu.Lock()
SetLogger_Lock(c) ==
    /\ call[c].pc = "idle"
    /\ CanLock(mu)
    /\ mu.p \in {"", c}
    /\ mu' = [mu EXCEPT !.w = c, !.p = ""]
    /\ call' = [call EXCEPT ![c].pc = "setlogger"]
    /\ UNCHANGED <<messages, heap, sess, decl, done, scanVars, srv, restVars>>

\* SetLogger: s.logger = logger, the write of the field begins.
SetLogger_Write(c, l) ==
    /\ call[c].pc = "setlogger"
    /\ logger' = [logger EXCEPT
                    !.val = l,
                    !.acc = @ \cup {[who |-> c, kind |-> "write", locked |-> mu.w = c]}]
    /\ call' = [call EXCEPT ![c].pc = "setlogger_w"]
    /\ UNCHANGED <<messages, heap, mu, sess, decl, done, scanVars, srv, glob>>

\* SetLogger: the write is over; the deferred s.mu.Unlock()
SetLogger_Unlock(c) ==
    /\ call[c].pc = "setlogger_w"
    /\ logger' = [logger EXCEPT !.acc = {a \in @ : a.who # c}]
    /\ mu' = [mu EXCEPT !.w = ""]
    /\ call' = [call EXCEPT ![c].pc = "idle"]
    /\ UNCHANGED <<messages, heap, sess, decl, done, scanVars, srv, glob>>

\* The goroutine of the SMTP server: Serve has returned because Accept failed
\* on a listener that was closed by Start (smtpListener.Close()) and not by
\* smtpServer.Close(), so serveErr is not ErrServerClosed; the goroutine goes
\* on to `if s.logger != nil`, and its read of the field begins.  No lock is
\* taken.
Smtp_Report ==
    /\ srv.smtpLoop \in {"failed", "stopped"}
    /\ ~srv.smtpDone
    /\ srv' = [srv EXCEPT !.smtpLoop = "report"]
    /\ logger' = [logger EXCEPT
                    !.acc = @ \cup {[who |-> "smtp", kind |-> "read", locked |-> FALSE]}]
    /\ UNCHANGED <<messages, heap, mu, sess, call, decl, done, scanVars, glob>>

\* The goroutine of the SMTP server: the read of s.logger is over and
\* s.logger.Printf is called when the value read is not nil.  A read that ran
\* while the field was being written yields any logger, or a value that is
\* none ("torn": the two words of the interface are of different loggers).
Smtp_ReportRead(v) ==
    /\ srv.smtpLoop = "report"
    /\ IF \E a \in logger.acc : a.kind = "write"
         THEN v \in Loggers \cup {"torn"}
         ELSE v = logger.val
    /\ srv' = [srv EXCEPT !.smtpLoop = "reported"]
    /\ logger' = [logger EXCEPT !.acc = {a \in @ : a.who # "smtp"}, !.seen = v]
    /\ UNCHANGED <<messages, heap, mu, sess, call, decl, done, scanVars, glob>>

-----------------------------------------------------------------------------
(* DefaultServer and StopDefault.  The server that globalServer points to   *)
(* is always the one made last, whose state is srv and whose store is       *)
(* messages.                                                                *)

globVars == <<messages, heap, mu, sess, call, decl, done, scanVars, srv, logger>>

\* DefaultServer without globalMu.Lock().
DefaultServer_Lock_NeverWaits(t) ==
    /\ glob.thr[t].pc = "idle"
    /\ glob' = [glob EXCEPT !.thr[t].pc = "ds_locked"]
    /\ UNCHANGED globVars

\* DefaultServer: globalMu.Lock()
DefaultServer_Lock(t) ==
    /\ glob.thr[t].pc = "idle"
    /\ glob.mu = ""
    /\ glob' = [glob EXCEPT !.mu = t, !.thr[t].pc = "ds_locked"]
    /\ UNCHANGED globVars

\* DefaultServer: globalServer != nil, it is returned; the deferred Unlock.
DefaultServer_Cached(t) ==
    /\ glob.thr[t].pc = "ds_locked"
    /\ glob.server # 0
    /\ glob' = [glob EXCEPT !.mu = IF @ = t THEN "" ELSE @,
                            !.got = @ \cup {<<glob.epoch, glob.server>>},
                            !.thr[t] = [pc |-> "idle", ret |-> glob.server, err |-> "nil"]]
    /\ UNCHANGED globVars

\* The ports a server that is dropped goes on holding: a listener that is
\* bound and that no later call closes.
HeldBy(r) ==
    {p \in {"smtp"} : r.smtpL = "bound"} \cup
    {p \in {"http"} : r.httpL = "bound" /\ ~r.httpDown}

\* DefaultServer: globalServer == nil; New(smtpPort, httpPort) makes a server
\* with an empty store and no connection.  (The model follows one server at a
\* time: a Stop under way on the server made before is let finish first.)
DefaultServer_New(t) ==
    /\ glob.thr[t].pc = "ds_locked"
    /\ glob.server = 0
    /\ srv.stop = "idle"
    /\ \A u \in Callers : glob.thr[u].pc \notin {"sd_call", "stop_call"}
    /\ glob' = [glob EXCEPT !.made = @ + 1,
                            !.held = @ \cup HeldBy(srv),
                            !.thr[t].pc = "ds_start",
                            !.thr[t].ret = glob.made + 1]
    /\ srv' = NotStarted
    /\ messages' = <<>>
    /\ heap' = <<>>
    /\ mu' = [w |-> "", r |-> {}, p |-> ""]
    /\ sess' = [s \in Sessions |-> [NewSess EXCEPT !.last = "None"]]
    /\ decl' = [s \in Sessions |-> NoDecl]
    /\ done' = <<>>
    /\ logger' = NoLogger
    /\ UNCHANGED <<call, scanVars>>

\* DefaultServer: server.Start() has returned.  On an error nil and the
\* wrapped error are returned; otherwise the server becomes globalServer and
\* is returned.  The deferred Unlock.
DefaultServer_Started(t) ==
    /\ glob.thr[t].pc = "ds_start"
    /\ srv.pc = "done"
    /\ glob' = [glob EXCEPT
                  !.mu = IF @ = t THEN "" ELSE @,
                  !.server = IF srv.ret = "nil" THEN glob.thr[t].ret ELSE @,
                  !.got = IF srv.ret = "nil" THEN @ \cup {<<glob.epoch, glob.thr[t].ret>>} ELSE @,
                  !.thr[t] = IF srv.ret = "nil"
                               THEN [pc |-> "idle", ret |-> glob.thr[t].ret, err |-> "nil"]
                               ELSE [pc |-> "idle", ret |-> 0, err |-> "err"]]
    /\ UNCHANGED globVars

\* StopDefault: globalMu.Lock()
StopDefault_Lock(t) ==
    /\ glob.thr[t].pc = "idle"
    /\ glob.mu = ""
    /\ glob' = [glob EXCEPT !.mu = t, !.thr[t].pc = "sd_locked"]
    /\ UNCHANGED globVars

\* StopDefault: globalServer == nil, nil is returned; the deferred Unlock.
StopDefault_Nil(t) ==
    /\ glob.thr[t].pc = "sd_locked"
    /\ glob.server = 0
    /\ glob' = [glob EXCEPT !.mu = "", !.thr[t].pc = "idle", !.thr[t].err = "nil"]
    /\ UNCHANGED globVars

\* StopDefault: globalServer.Stop(ctx) is called.
StopDefault_Stop(t) ==
    /\ glob.thr[t].pc = "sd_locked"
    /\ glob.server # 0
    /\ srv.stop = "idle"
    /\ \A u \in Callers : glob.thr[u].pc # "stop_call"
    /\ glob' = [glob EXCEPT !.thr[t].pc = "sd_call"]
    /\ srv' = [srv EXCEPT !.stopRet = ""]
    /\ UNCHANGED <<messages, heap, mu, sess, call, decl, done, scanVars, logger>>

\* A StopDefault that keeps globalServer when Stop returned an error.
StopDefault_Done_KeepsOnError(t) ==
    /\ glob.thr[t].pc = "sd_call"
    /\ srv.stop = "idle"
    /\ srv.stopRet # ""
    /\ glob' = [glob EXCEPT !.mu = "",
                            !.server = IF srv.stopRet = "nil" THEN 0 ELSE @,
                            !.epoch = @ + 1,
                            !.thr[t].pc = "idle",
                            !.thr[t].err = srv.stopRet]
    /\ UNCHANGED globVars

\* StopDefault: Stop has returned; globalServer = nil, and the error of Stop
\* is returned.  The deferred Unlock.
StopDefault_Done(t) ==
    /\ glob.thr[t].pc = "sd_call"
    /\ srv.stop = "idle"
    /\ srv.stopRet # ""
    /\ glob' = [glob EXCEPT !.mu = "",
                            !.server = 0,
                            !.epoch = @ + 1,
                            !.thr[t].pc = "idle",
                            !.thr[t].err = srv.stopRet]
    /\ UNCHANGED globVars

\* A caller stops the server that DefaultServer gave it: server.Stop(ctx).
Server_Stop(t) ==
    /\ glob.thr[t].pc = "idle"
    /\ glob.thr[t].ret # 0
    /\ glob.thr[t].ret = glob.made
    /\ srv.pc = "done"
    /\ srv.stop = "idle"
    /\ \A u \in Callers : glob.thr[u].pc \notin {"sd_call", "stop_call"}
    /\ glob' = [glob EXCEPT !.thr[t].pc = "stop_call"]
    /\ srv' = [srv EXCEPT !.stopRet = ""]
    /\ UNCHANGED <<messages, heap, mu, sess, call, decl, done, scanVars, logger>>

\* server.Stop(ctx) has returned to the caller.
Server_Stop_Done(t) ==
    /\ glob.thr[t].pc = "stop_call"
    /\ srv.stop = "idle"
    /\ srv.stopRet # ""
    /\ glob' = [glob EXCEPT !.thr[t].pc = "idle", !.thr[t].err = srv.stopRet]
    /\ UNCHANGED globVars

\* A goroutine is inside Start, or inside Stop before its first statement.
Starting == \E t \in Callers : glob.thr[t].pc = "ds_start"
Stopping == \E t \in Callers : glob.thr[t].pc \in {"sd_call", "stop_call"}

\* The server's two listeners are bound and neither server has been closed.
Running(r) ==
    /\ r.smtpL = "bound" /\ r.httpL = "bound"
    /\ ~r.smtpDone /\ ~r.httpDown

-----------------------------------------------------------------------------
(* Inputs and bounds.                                                      *)

\* "Subject: T\r\n\r\nHi"
Letter == <<"S","u","b","j","e","c","t",":"," ","T","\r","\n","\r","\n","H","i">>

\* The bytes one Read returns.
ChunkLen == 8

ReadLen(s) == IF Len(sess[s].wire) < ChunkLen THEN Len(sess[s].wire) ELSE ChunkLen

\* The transactions under way.
InData == { s \in Sessions : ~Idle(s) }

\* The most records the store holds in each specification, and the most
\* recipients a session declares.
MaxMsgs == 3
MaxRcpt == 2
MaxServers == 2

\* What a session does once Data has been called.
DataSteps(s) ==
    \/ Data_Read(s, ReadLen(s))
    \/ Data_ReadErr(s)
    \/ Data_ReadEOF(s)
    \/ addMessage_Lock(s)
    \/ addMessage_Stamp(s, 1)
    \/ addMessage_Append(s)
    \/ addMessage_Unlock(s)

ClearSteps(c) ==
    \/ Clear_Lock(c)
    \/ Clear_Make(c)
    \/ Clear_Unlock(c)

\* Two sessions and a caller of Emails and Clear at work on one Server.
Next ==
    \/ \E s \in Sessions :
        \/ \E a \in {"a", "b"} : Mail(s, a)
        \/ Reset(s)
        \/ Len(messages) + Cardinality(InData) < MaxMsgs /\ Data_Call(s, Letter)
        \/ DataSteps(s)
    \/ ClearSteps("c1")
    \/ Emails_RLock("c1")
    \/ Emails_Copy("c1")
    \/ Emails_RUnlock("c1", FALSE)

\* One session that declares senders and recipients, a second session that
\* sends letters beside it, and a caller of Clear; a letter is sent to an
\* empty store only.
NextSession ==
    \/ \E a \in {"a", "b"} : Mail("s1", a)
    \/ \E a \in {"x", "y"} : Len(decl["s1"].rcpt) < MaxRcpt /\ Rcpt("s1", a)
    \/ Reset("s1")
    \/ NewSession("s1")
    \/ Mail("s2", "c")
    \/ \E s \in Sessions :
        \/ messages = <<>> /\ Data_Call(s, Letter)
        \/ DataSteps(s)
    \/ ClearSteps("c1")

\* One session and a caller of Email and Clear.
NextQuery ==
    \/ \E a \in {"a", "b"} : Mail("s1", a)
    \/ Len(messages) < MaxMsgs /\ Data_Call("s1", Letter)
    \/ DataSteps("s1")
    \/ ClearSteps("c1")
    \/ \E id \in {FormatID(0), FormatID(1), FormatID(12), ""} : Email_RLock("c1", id)
    \/ Email_Find("c1")
    \/ Email_RUnlock("c1", TRUE)

\* Two sessions whose transactions overlap, a caller of Emails and Clear and a
\* caller of Email.  The first session starts a transaction on an empty store
\* while the second one is idle, the second one only while the first one is
\* inside Data: when both are inside Data the first one has started first.
NextShared ==
    \/ Mail("s1", "a")
    \/ Mail("s2", "c")
    \/ Idle("s2") /\ messages = <<>> /\ Data_Call("s1", Letter)
    \/ ~Idle("s1") /\ Len(messages) + 1 < MaxMsgs /\ Data_Call("s2", Letter)
    \/ \E s \in Sessions : DataSteps(s)
    \/ ClearSteps("c1")
    \/ Emails_RLock("c1")
    \/ Emails_Copy("c1")
    \/ Emails_RUnlock("c1", FALSE)
    \/ \E id \in {FormatID(0), FormatID(1)} : Email_RLock("c2", id)
    \/ Email_Find("c2")
    \/ Email_RUnlock("c2", FALSE)

\* The most recipients the session of NextAppendOnly declares: enough for an
\* append that stores in place, in the spare capacity of an array a record
\* shares.
MaxTo == 4

\* The addresses the session of NextAppendOnly declares, in this order.
Recipients == << "x", "y", "z", "w", "v", "u" >>

\* A session that declares recipients before and after its transactions, a
\* second one that sends letters beside it, and a caller that reads and clears
\* the store.
NextAppendOnly ==
    \/ Len(decl["s1"].rcpt) < MaxTo /\ Rcpt("s1", Recipients[Len(decl["s1"].rcpt) + 1])
    \/ Reset("s1")
    \/ Len(messages) + Cardinality(InData) < MaxMsgs - 1 /\ Data_Call("s1", Letter)
    \/ messages = <<>> /\ Data_Call("s2", Letter)
    \/ \E s \in Sessions : DataSteps(s)
    \/ ClearSteps("c1")
    \/ Emails_RLock("c1")
    \/ Emails_Copy("c1")
    \/ Emails_RUnlock("c1", FALSE)

\* A session that declares recipients and sends letters, and a caller that
\* keeps what Emails returned and clears the store.
NextSnapshot ==
    \/ Mail("s1", "a")
    \/ Len(decl["s1"].rcpt) < MaxRcpt /\ Rcpt("s1", Recipients[Len(decl["s1"].rcpt) + 1])
    \/ Len(messages) < MaxMsgs - 1 /\ Data_Call("s1", Letter)
    \/ DataSteps("s1")
    \/ ClearSteps("c1")
    \/ Emails_RLock("c1")
    \/ Emails_Copy("c1")
    \/ Emails_RUnlock("c1", TRUE)

\* What the handlers do once the middleware has passed a request on.
HandlerSteps(c) ==
    \/ ServeMux_NoHandler(c)
    \/ handleGetEmails_RLock(c)
    \/ Emails_Copy(c)
    \/ handleGetEmails_RUnlock(c)
    \/ handleGetEmails_Write(c)
    \/ handleGetEmail_NoID(c)
    \/ handleGetEmail_RLock(c)
    \/ Email_Find(c)
    \/ handleGetEmail_RUnlock(c)
    \/ handleGetEmail_Write(c)
    \/ handleDeleteEmails_Lock(c)
    \/ Clear_Make(c)
    \/ handleDeleteEmails_Unlock(c)
    \/ handleDeleteEmails_Write(c)
    \/ Http_Done(c)

\* The requests of the client that reads, and of the client that deletes.
ReadRequests ==
    { <<"GET", <<EmailsPath, "">> >>,
      <<"GET", <<EmailPrefix, "">> >>,
      <<"GET", <<EmailPrefix, FormatID(0)>> >>,
      <<"GET", <<EmailPrefix, FormatID(7)>> >>,
      <<"GET", <<"/", "">> >>,
      <<"OPTIONS", <<EmailPrefix, FormatID(0)>> >> }

WriteRequests ==
    { <<"DELETE", <<EmailsPath, "">> >>,
      <<"OPTIONS", <<EmailsPath, "">> >>,
      <<"POST", <<EmailsPath, "">> >> }

\* A session that sends letters, and two clients of the HTTP API.
NextHttp ==
    \/ Mail("s1", "a")
    \/ Len(messages) < MaxMsgs - 1 /\ Data_Call("s1", Letter)
    \/ DataSteps("s1")
    \/ \E rq \in ReadRequests : corsMiddleware("c1", rq[1], rq[2])
    \/ \E rq \in WriteRequests : corsMiddleware("c2", rq[1], rq[2])
    \/ \E c \in Callers : HandlerSteps(c)

\* Start with either port free or taken, the serve loops, a client of the SMTP
\* port and a client of the HTTP port.
NextStart ==
    \/ \E ok \in BOOLEAN : Start_ListenSMTP(ok)
    \/ Start_GoSMTP
    \/ \E ok \in BOOLEAN : Start_ListenHTTP(ok)
    \/ Start_GoHTTP
    \/ Smtp_Serve
    \/ Http_Serve
    \/ Smtp_Accept("s1")
    \/ Connected("s1") /\ Mail("s1", "a")
    \/ Connected("s1") /\ Len(messages) < MaxMsgs - 1 /\ Data_Call("s1", Letter)
    \/ DataSteps("s1")
    \/ srv.httpLoop = "serving" /\ corsMiddleware("c1", "GET", <<EmailsPath, "">>)
    \/ handleGetEmails_RLock("c1")
    \/ Emails_Copy("c1")
    \/ handleGetEmails_RUnlock("c1")
    \/ handleGetEmails_Write("c1")
    \/ Http_Done("c1")

\* One connection whose client issues the commands in any order, with any
\* credentials, and a caller of Clear.
NextPermissive ==
    \/ NewSession("s1")
    \/ \E u, pw \in {"", "u"} : AuthPlain("s1", u, pw)
    \/ Mail("s1", "a")
    \/ Len(decl["s1"].rcpt) < MaxRcpt /\ Rcpt("s1", Recipients[Len(decl["s1"].rcpt) + 1])
    \/ Reset("s1")
    \/ Logout("s1")
    \/ Len(messages) < MaxMsgs - 1 /\ Data_Call("s1", Letter)
    \/ DataSteps("s1")
    \/ ClearSteps("c1")

\* Two sessions that send letters, a caller of Clear and Email and a caller of
\* Emails.  Every Lock is first pending and then held.
NextStall ==
    \/ \E s \in Sessions :
        \/ Len(messages) + Cardinality(InData) < MaxMsgs /\ Data_Call(s, Letter)
        \/ Data_Read(s, ReadLen(s))
        \/ Data_ReadErr(s)
        \/ Data_ReadEOF(s)
        \/ Lock_Pending(s)
        \/ mu.p = s /\ addMessage_Lock(s)
        \/ addMessage_Stamp(s, 1)
        \/ addMessage_Append(s)
        \/ addMessage_Unlock(s)
    \/ Lock_Pending("c1")
    \/ mu.p = "c1" /\ Clear_Lock("c1")
    \/ Clear_Make("c1")
    \/ Clear_Unlock("c1")
    \/ Email_RLock("c1", FormatID(0))
    \/ Email_Find("c1")
    \/ Email_RUnlock("c1", FALSE)
    \/ Emails_RLock("c2")
    \/ Emails_Copy("c2")
    \/ Emails_RUnlock("c2", FALSE)

\* The scheduling the store's operations can count on.  A goroutine that holds
\* the lock, or whose Lock is pending, goes on running (weak fairness).
\* sync.RWMutex gives every Lock its turn among the writers, and lets the
\* readers in between two writers (strong fairness: the step is possible again
\* and again, not all the time).  The callers go on calling.  Nothing is
\* assumed of the body read: the client may never send the rest.
FairStore ==
    /\ \A s \in Sessions :
          /\ SF_vars(Lock_Pending(s))
          /\ WF_vars(mu.p = s /\ addMessage_Lock(s))
          /\ WF_vars(addMessage_Stamp(s, 1))
          /\ WF_vars(addMessage_Append(s))
          /\ WF_vars(addMessage_Unlock(s))
    /\ SF_vars(Lock_Pending("c1"))
    /\ WF_vars(mu.p = "c1" /\ Clear_Lock("c1"))
    /\ WF_vars(Clear_Make("c1"))
    /\ WF_vars(Clear_Unlock("c1"))
    /\ SF_vars(Email_RLock("c1", FormatID(0)))
    /\ WF_vars(Email_Find("c1"))
    /\ WF_vars(Email_RUnlock("c1", FALSE))
    /\ SF_vars(Emails_RLock("c2"))
    /\ WF_vars(Emails_Copy("c2"))
    /\ WF_vars(Emails_RUnlock("c2", FALSE))

\* A session that declares recipients and sends letters, a caller that keeps
\* what Emails returned and one that keeps what Email returned, and both write
\* to what they keep.
NextCopies ==
    \/ Mail("s1", "a")
    \/ Len(decl["s1"].rcpt) < MaxRcpt /\ Rcpt("s1", Recipients[Len(decl["s1"].rcpt) + 1])
    \/ Len(messages) < MaxMsgs - 1 /\ Data_Call("s1", Letter)
    \/ DataSteps("s1")
    \/ Emails_RLock("c1")
    \/ Emails_Copy("c1")
    \/ Emails_RUnlock("c1", TRUE)
    \/ Email_RLock("c2", FormatID(0))
    \/ Email_Find("c2")
    \/ Email_RUnlock("c2", TRUE)
    \/ \E c \in Callers : \E i \in 1..(MaxMsgs - 1) : Caller_SetFrom(c, i, "e")
    \/ \E c \in Callers : \E i \in 1..(MaxMsgs - 1) : \E j \in 1..MaxRcpt :
          Caller_SetTo(c, i, j, "e")

\* Start on free ports, the serve loops, an SMTP client that sends a letter,
\* an HTTP client that lists the store, and calls of Stop.
NextStop ==
    \/ Start_ListenSMTP(TRUE)
    \/ Start_GoSMTP
    \/ Start_ListenHTTP(TRUE)
    \/ Start_GoHTTP
    \/ Smtp_Serve
    \/ Http_Serve
    \/ Http_ServeEnd
    \/ Smtp_Accept("s1")
    \/ Open("s1") /\ messages = <<>> /\ Data_Call("s1", Letter)
    \/ Open("s1") /\ Data_Read("s1", ReadLen("s1"))
    \/ Open("s1") /\ Data_ReadEOF("s1")
    \/ Data_ReadErr("s1")
    \/ addMessage_Lock("s1")
    \/ addMessage_Stamp("s1", 1)
    \/ addMessage_Append("s1")
    \/ addMessage_Unlock("s1")
    \/ Accepting /\ corsMiddleware("c1", "GET", <<EmailsPath, "">>)
    \/ handleGetEmails_RLock("c1")
    \/ Emails_Copy("c1")
    \/ handleGetEmails_RUnlock("c1")
    \/ handleGetEmails_Write("c1")
    \/ Http_Done("c1")
    \/ Stop_CloseSMTP
    \/ Stop_ShutdownHTTP
    \/ Stop_Wait
    \/ Ctx_Expire

\* Two goroutines that call DefaultServer, StopDefault and Stop on the server
\* they were given, with the ports free or taken, and an SMTP client.
NextDefault ==
    \/ \E t \in Callers : (glob.server = 0 => glob.made < MaxServers) /\ DefaultServer_Lock(t)
    \/ \E t \in Callers : DefaultServer_Cached(t)
    \/ \E t \in Callers : DefaultServer_New(t)
    \/ \E t \in Callers : DefaultServer_Started(t)
    \/ \E t \in Callers : StopDefault_Lock(t)
    \/ \E t \in Callers : StopDefault_Nil(t)
    \/ \E t \in Callers : StopDefault_Stop(t)
    \/ \E t \in Callers : StopDefault_Done(t)
    \/ \E t \in Callers : Server_Stop(t)
    \/ \E t \in Callers : Server_Stop_Done(t)
    \/ Starting /\ (\E ok \in BOOLEAN : (ok => "smtp" \notin glob.held) /\ Start_ListenSMTP(ok))
    \/ Starting /\ Start_GoSMTP
    \/ Starting /\ (\E ok \in BOOLEAN : (ok => "http" \notin glob.held) /\ Start_ListenHTTP(ok))
    \/ Starting /\ Start_GoHTTP
    \/ Smtp_Serve
    \/ Http_Serve
    \/ Http_ServeEnd
    \/ Stopping /\ srv.stopRet = "" /\ Stop_CloseSMTP
    \/ Stop_ShutdownHTTP
    \/ Stop_Wait
    \/ Smtp_Accept("s1")
    \/ Open("s1") /\ messages = <<>> /\ Data_Call("s1", Letter)
    \/ Open("s1") /\ Data_Read("s1", ReadLen("s1"))
    \/ Open("s1") /\ Data_ReadEOF("s1")
    \/ Data_ReadErr("s1")
    \/ addMessage_Lock("s1")
    \/ addMessage_Stamp("s1", 1)
    \/ addMessage_Append("s1")
    \/ addMessage_Unlock("s1")

\* The server as New returns it, and no connection yet.
InitStart ==
    /\ messages = <<>>
    /\ heap = <<>>
    /\ mu = [w |-> "", r |-> {}, p |-> ""]
    /\ sess = [s \in Sessions |-> [NewSess EXCEPT !.last = "None"]]
    /\ call = [c \in Callers |-> IdleCall]
    /\ decl = [s \in Sessions |-> NoDecl]
    /\ done = <<>>
    /\ srv = NotStarted
    /\ logger = NoLogger
    /\ glob = NoGlobal
    /\ scanIn = <<>>
    /\ scanOut = <<>>
    /\ scanDone = FALSE

Init ==
    /\ StoreInit
    /\ scanIn = <<>>
    /\ scanOut = <<>>
    /\ scanDone = FALSE

Spec == Init /\ [][Next]_vars

SpecSession == Init /\ [][NextSession]_vars

SpecQuery == Init /\ [][NextQuery]_vars

SpecShared == Init /\ [][NextShared]_vars

SpecAppendOnly == Init /\ [][NextAppendOnly]_vars

SpecSnapshot == Init /\ [][NextSnapshot]_vars

SpecHttp == Init /\ [][NextHttp]_vars

SpecStart == InitStart /\ [][NextStart]_vars
SpecStop == InitStart /\ [][NextStop]_vars
SpecCopies == Init /\ [][NextCopies]_vars
SpecStall == Init /\ [][NextStall]_vars /\ FairStore
SpecPermissive == Init /\ [][NextPermissive]_vars
SpecDefault == InitStart /\ [][NextDefault]_vars

\* Start, the serve goroutines, one connection, and two callers of SetLogger
\* and Emails.
NextLogger ==
    \/ \E ok \in BOOLEAN : Start_ListenSMTP(ok)
    \/ Start_GoSMTP
    \/ \E ok \in BOOLEAN : Start_ListenHTTP(ok)
    \/ Start_GoHTTP
    \/ Smtp_Serve
    \/ Http_Serve
    \/ Smtp_Report
    \/ \E v \in Loggers \cup {"torn"} : Smtp_ReportRead(v)
    \/ \E c \in Callers : SetLogger_Lock(c)
    \/ \E c \in Callers, l \in Loggers : SetLogger_Write(c, l)
    \/ \E c \in Callers : SetLogger_Unlock(c)
    \/ Smtp_Accept("s1")
    \/ messages = <<>> /\ Data_Call("s1", Letter)
    \/ DataSteps("s1")
    \/ Emails_RLock("c1")
    \/ Emails_Copy("c1")
    \/ Emails_RUnlock("c1", FALSE)

SpecLogger == InitStart /\ [][NextLogger]_vars

-----------------------------------------------------------------------------
(* The bodies parseSubject is run on: up to MaxLines lines, each one of    *)
(* HeaderLines followed by one of LineEnds.                                *)

MaxLines == 2

HeaderLines == {
    <<"S","u","b","j","e","c","t",":"," ","H","i">>,
    <<"S","U","B","J","E","C","T",":"," "," ","s","p"," ">>,
    <<"s","u","b","j","e","c","t",":","2">>,
    <<"S","u","b","j","e","c","t"," ",":","n">>,
    <<"X","-","S","u","b","j","e","c","t",":","x">>,
    <<"S","u","b","j","e","c","t",":","a",":","b","\r">>,
    <<"T","o",":","b">>,
    <<"j","u","s","t"," ","t","e","x","t">>,
    <<" ">>,
    <<>>,
    <<Block>>,
    <<Block, "y">>,
    <<"S","u","b","j","e","c","t",":",Block>> }

LineEnds == { <<"\n">>, <<"\r","\n">>, <<>> }

RECURSIVE BodiesOf(_)
BodiesOf(n) ==
    IF n = 0 THEN { <<>> }
    ELSE LET shorter == BodiesOf(n - 1)
         IN  shorter \cup { b \o l \o e : b \in shorter, l \in HeaderLines, e \in LineEnds }

ScanBodies == BodiesOf(MaxLines)

ScanInit ==
    /\ StoreInit
    /\ scanIn \in ScanBodies
    /\ scanOut = <<>>
    /\ scanDone = FALSE

\* A call of parseSubject(body).
Parse ==
    /\ ~scanDone
    /\ scanOut' = parseSubject(scanIn)
    /\ scanDone' = TRUE
    /\ UNCHANGED scanIn
    /\ UNCHANGED storeVars

-----------------------------------------------------------------------------
(* The header scan as the specification words it, stated over the whole    *)
(* body at once rather than as a loop.                                     *)

\* The positions of the line feeds of a body.
LineFeeds(body) == { i \in 1..Len(body) : body[i] = "\n" }

\* The number of lines: one per line feed, and one more for text after the
\* last line feed.
NumLines(body) ==
    Cardinality(LineFeeds(body))
        + (IF body # <<>> /\ body[Len(body)] # "\n" THEN 1 ELSE 0)

\* Line k starts after the (k-1)-th line feed and ends before the k-th one or
\* at the end of the body; a carriage return before the line feed is not part
\* of the line.
LineStart(body, k) ==
    IF k = 1 THEN 1
    ELSE 1 + CHOOSE i \in LineFeeds(body) :
                 Cardinality({ j \in LineFeeds(body) : j < i }) = k - 2

LineStop(body, k) ==
    IF k <= Cardinality(LineFeeds(body))
    THEN (CHOOSE i \in LineFeeds(body) :
              Cardinality({ j \in LineFeeds(body) : j < i }) = k - 1) - 1
    ELSE Len(body)

LineOf(body, k) ==
    LET s == LineStart(body, k)
        e == LineStop(body, k)
    IN  IF e >= s /\ body[e] = "\r" THEN SubSeq(body, s, e - 1) ELSE SubSeq(body, s, e)

\* A line names the field when the text before its first colon is "subject"
\* in any mix of cases.
NamesSubject(line) ==
    \E c \in 1..Len(line) :
        /\ line[c] = ":"
        /\ \A j \in 1..(c - 1) : line[j] # ":"
        /\ ToLower(SubSeq(line, 1, c - 1)) = <<"s","u","b","j","e","c","t">>

FieldValue(line) ==
    LET c == CHOOSE c \in 1..Len(line) : line[c] = ":" /\ \A j \in 1..(c - 1) : line[j] # ":"
        v == SubSeq(line, c + 1, Len(line))
        lead  == { i \in 1..Len(v) : v[i] \notin AsciiSpace }
    IN  IF lead = {} THEN <<>>
        ELSE SubSeq(v, CHOOSE i \in lead : \A j \in lead : i <= j,
                       CHOOSE i \in lead : \A j \in lead : i >= j)

\* The reference scan: the value of the first line that names the field among
\* the lines before the first empty line; empty when there is none.
RefSubject(body) ==
    LET n     == NumLines(body)
        empty == { k \in 1..n : LineOf(body, k) = <<>> }
        hdr   == { k \in 1..n : \A e \in empty : k < e }
        hits  == { k \in hdr : NamesSubject(LineOf(body, k)) }
    IN  IF hits = {} THEN <<>>
        ELSE FieldValue(LineOf(body, CHOOSE k \in hits : \A h \in hits : k <= h))

\* Every line of the body fits the scanner's buffer.
ShortLines(body) ==
    \A k \in 1..NumLines(body) :
        ByteLen(SubSeq(body, LineStart(body, k), LineStop(body, k))) < MaxScanTokenSize

SpecParse == ScanInit /\ [][Parse]_vars

-----------------------------------------------------------------------------
(* Properties of the store and of the session.                             *)

\* The identifiers as the documentation writes them, by position.
ExpectedIDs == << "msg-0", "msg-1", "msg-2", "msg-3", "msg-4", "msg-5" >>

\* The identifiers of the records of m.
IDsOf(m) == { m[i].ID : i \in 1..Len(m) }

\* C1: starting from an empty store, after N transactions have completed
\* (Data returned nil) with no Clear since, Emails() returns exactly N records,
\* and the record at position i (0-based) has the ID "msg-i" and is the record
\* of the transaction that completed i-th.
C1_IdsFollowCompletionOrder ==
    \A c \in Callers :
        call[c].pc = "listed" =>
            /\ Len(call[c].ret) = Len(done)
            /\ \A i \in 1..Len(done) :
                  /\ i <= Len(call[c].ret)
                  /\ call[c].ret[i].ID = ExpectedIDs[i]
                  /\ call[c].ret[i].From = done[i].From
                  /\ call[c].ret[i].Body = done[i].Body

\* Emails() has returned three records of transactions with different senders.
C1_Witness ==
    \E c \in Callers :
        /\ call[c].pc = "listed"
        /\ Len(call[c].ret) = 3
        /\ call[c].ret[1].From # call[c].ret[2].From
        /\ call[c].ret[1].ID = "msg-0"
        /\ call[c].ret[3].ID = "msg-2"

\* C2: when the sessions complete transactions in parallel with no Clear,
\* then under every interleaving, once no append is under way, the store has
\* one record per completed transaction, and the IDs of the M records are
\* pairwise distinct and are exactly msg-0 .. msg-(M-1).
C2_ParallelIdsDistinctAndContiguous ==
    mu.w = "" =>
        /\ Len(messages) = Len(done)
        /\ Cardinality(IDsOf(messages)) = Len(messages)
        /\ IDsOf(messages) = { ExpectedIDs[k] : k \in 1..Len(done) }

\* One session has appended its record and still holds the lock while the
\* other one, its body read, waits for the lock.
C2_Witness ==
    \E s, t \in Sessions :
        /\ s # t
        /\ sess[s].pc = "appended"
        /\ sess[t].pc = "built"
        /\ Len(messages) >= 2

\* C3: the record a completed transaction appends carries that session's own
\* data under every interleaving with the other session: From is the address
\* of its latest Mail, To the addresses of its Rcpt calls, in the order of the
\* calls, since its last Reset, Body the whole payload received, Subject the
\* header scan of that Body.  The Email that Data hands to addMessage carries
\* these values with no ID and no Time, and the record appended differs from
\* it in ID and Time only.
C3_RecordCarriesOwnData ==
    /\ \A i \in 1..Len(done) :
          /\ i <= Len(messages)
          /\ messages[i].From = done[i].From
          /\ Elems(heap, messages[i].To) = done[i].To
          /\ messages[i].Body = done[i].Body
          /\ messages[i].Subject = RefSubject(done[i].Body)
    /\ \A s \in Sessions :
          sess[s].pc \in {"built", "locked", "stamped", "appended"} =>
              /\ sess[s].email.From = decl[s].mail
              /\ Elems(heap, sess[s].email.To) = decl[s].rcpt
              /\ sess[s].email.Body = decl[s].sent
              /\ sess[s].email.Subject = RefSubject(decl[s].sent)
              /\ sess[s].pc \in {"built", "locked"} =>
                    /\ sess[s].email.ID = ""
                    /\ sess[s].email.Time = 0
              /\ sess[s].pc = "appended" =>
                    /\ messages # <<>>
                    /\ messages[Len(messages)] = sess[s].email

\* Two records side by side: the one of the session that declared no
\* recipient, and the one of the session that declared "y" and then "x".
C3_Witness ==
    /\ mu.w = ""
    /\ Len(messages) = 2
    /\ messages[1].From = "c"
    /\ Elems(heap, messages[1].To) = <<>>
    /\ messages[2].From = "b"
    /\ Elems(heap, messages[2].To) = <<"y", "x">>
    /\ messages[2].Body = Letter
    /\ messages[2].Subject = <<"T">>

\* C4: Email(id) returns the record appended under that ID, for every ID in
\* the store, and nil, never another record, for every ID that is not in the
\* store, an ID that was in the store before a Clear and has not been given
\* out again included.
C4_EmailReturnsExactRecordOrNil ==
    \A c \in Callers :
        call[c].pc = "got" =>
            LET hits == { i \in 1..Len(messages) : messages[i].ID = call[c].id }
            IN  /\ Cardinality(hits) <= 1
                /\ hits = {} => call[c].ret = <<>>
                /\ \A i \in hits :
                      /\ call[c].ret = << messages[i] >>
                      /\ call[c].id = ExpectedIDs[i]
                      /\ i <= Len(done)
                      /\ messages[i].From = done[i].From
                      /\ messages[i].Body = done[i].Body

\* Email is asked for the ID of a record the caller was given before a Clear,
\* the store does not hold that ID, and the answer is nil.
C4_Witness ==
    \E c \in Callers :
        /\ call[c].pc = "got"
        /\ call[c].kept # <<>>
        /\ call[c].kept[1].ID = call[c].id
        /\ messages # <<>>
        /\ call[c].id \notin IDsOf(messages)
        /\ call[c].ret = <<>>

\* C5: the numbering restarts after a Clear: the store is empty once Clear has
\* replaced it, and the first transaction completed after a Clear leaves a
\* store of one record with the ID "msg-0", whatever the store held before; an
\* Email("msg-0") then returns that record.
C5_ClearRestartsNumbering ==
    /\ \A c \in Callers : call[c].pc = "cleared" => messages = <<>>
    /\ (Len(done) = 1 /\ mu.w = "") =>
          /\ Len(messages) = 1
          /\ messages[1].ID = "msg-0"
          /\ \A c \in Callers :
                (call[c].pc = "got" /\ call[c].id = "msg-0") =>
                    call[c].ret = << messages[1] >>

\* The caller kept a record from before a Clear, and Email answers the ID of
\* that record with another, newer record.
C5_Witness ==
    \E c \in Callers :
        /\ call[c].pc = "got"
        /\ call[c].kept # <<>>
        /\ call[c].ret # <<>>
        /\ call[c].kept[1].ID = call[c].id
        /\ call[c].ret[1].ID = call[c].id
        /\ call[c].ret[1] # call[c].kept[1]
        /\ call[c].ret[1] = messages[1]

\* C6: no partial record is ever inserted: in every reachable state the store
\* holds one record per completed transaction and one per session that has
\* appended and not yet released the lock, each with the whole payload of its
\* transaction as Body, read to the end; a session that has only issued Mail,
\* or is still reading its body, has contributed no record.
C6_NoPartialRecord ==
    LET appended == { s \in Sessions : sess[s].pc = "appended" }
    IN  /\ Len(messages) = Len(done) + Cardinality(appended)
        /\ \A i \in 1..Len(done) :
              i <= Len(messages) /\ messages[i].Body = done[i].Body
        /\ \A s \in appended :
              /\ sess[s].wire = <<>>
              /\ sess[s].buf = decl[s].sent
              /\ messages # <<>>
              /\ messages[Len(messages)].Body = decl[s].sent
        /\ mu.r # {} => Len(messages) = Len(done)

\* A session has read a part of its body, the rest is still to come, and the
\* store holds the record of an earlier transaction.
C6_Witness ==
    \E s \in Sessions :
        /\ sess[s].pc = "read"
        /\ sess[s].buf # <<>>
        /\ sess[s].wire # <<>>
        /\ Len(messages) = 1
        /\ Len(done) = 1

\* C7: when reading the body fails during Data, the transaction is aborted:
\* Data returns an error, the store is the same before and after, and no other
\* session and no caller sees an effect.  A session leaves the reading of its
\* body either with the whole payload read, or with the error.
C7_ReadFailureAborts ==
    [][ \A s \in Sessions :
          (sess[s].pc = "read" /\ sess'[s].pc # "read") =>
              \/ /\ sess[s].wire = <<>>
                 /\ sess'[s].pc = "built"
                 /\ sess'[s].email.Body = decl[s].sent
              \/ /\ sess'[s].pc = "idle"
                 /\ sess'[s].last = "Data_err"
                 /\ sess'[s].from = sess[s].from
                 /\ sess'[s].to = sess[s].to
                 /\ messages' = messages
                 /\ heap' = heap
                 /\ mu' = mu
                 /\ call' = call
                 /\ done' = done
                 /\ \A t \in Sessions \ {s} : sess'[t] = sess[t] ]_vars

\* Data has returned an error to one session while the store holds a record
\* and the other session is reading its body.
C7_Witness ==
    \E s, t \in Sessions :
        /\ s # t
        /\ sess[s].last = "Data_err"
        /\ sess[s].pc = "idle"
        /\ sess[t].pc = "read"
        /\ Len(messages) = 1

\* C8: from any state of a session, Reset leaves the session idle with an
\* empty sender and an empty recipient list, and leaves the records of the
\* store, their number, their order and the values of their fields, the
\* recipients included, as they were.
C8_ResetEmptiesSessionOnly ==
    [][ \A s \in Sessions :
          (sess'[s].last = "Reset" /\ sess'[s] # sess[s]) =>
              /\ sess'[s].pc = "idle"
              /\ sess'[s].from = ""
              /\ sess'[s].to = NilSlice
              /\ Elems(heap', sess'[s].to) = <<>>
              /\ messages' = messages
              /\ \A i \in 1..Len(messages) :
                    Elems(heap', messages[i].To) = Elems(heap, messages[i].To)
              /\ \A t \in Sessions \ {s} : sess'[t] = sess[t] ]_vars

\* A session has just been reset, and the store holds a record with a sender
\* and two recipients.
C8_Witness ==
    \E s \in Sessions :
        /\ sess[s].last = "Reset"
        /\ sess[s].from = ""
        /\ Len(messages) = 1
        /\ messages[1].From = "a"
        /\ Elems(heap, messages[1].To) = <<"x", "y">>

\* C9: once Data has returned nil, the sender and the recipient list of the
\* session are empty.
C9_DataLeavesSessionEmpty ==
    \A s \in Sessions :
        sess[s].last = "Data_nil" =>
            /\ sess[s].pc = "idle"
            /\ sess[s].from = ""
            /\ sess[s].to = NilSlice

\* C10: for every body, the subject parseSubject returns is the subject of
\* the reference scan: the value of the first line that names the field
\* before the first empty line, trimmed; empty when there is no such line.
C10_SubjectIsReferenceScan ==
    scanDone => scanOut = RefSubject(scanIn)

\* The two scans agree on every body whose lines fit the scanner's buffer.
ScansAgreeOnShortLines ==
    (scanDone /\ ShortLines(scanIn)) => scanOut = RefSubject(scanIn)

\* No line of the body is empty: the end of the input comes before any blank
\* line, so that no header block is closed.
NoEmptyLine(body) ==
    \A k \in 1..NumLines(body) : LineOf(body, k) # <<>>

\* C11: for every body in which the end of the input is reached before any
\* empty line, parseSubject returns the empty string.
C11_NoHeaderBlockGivesEmpty ==
    (scanDone /\ NoEmptyLine(scanIn)) => scanOut = <<>>

\* The operations inside their critical sections.
Writers ==
    { s \in Sessions : sess[s].pc \in {"locked", "stamped", "appended"} }
        \cup { c \in Callers : call[c].pc \in {"clear", "cleared"} }

Readers == { c \in Callers : call[c].pc \in {"list", "listed", "get", "got"} }

\* C12: an Emails() or Email(id) call that starts after an append has returned
\* observes the appended record, provided no Clear has emptied the store in
\* between: while a reader is inside, the store holds the record of every
\* transaction completed since the last Clear, Emails copies all of them and
\* Email finds each of them by its ID.  The store's order is the order in which
\* the appends acquired the lock: an append that holds the lock puts its
\* record right after the records of the appends completed before it.
C12_QueriesSeeCompletedAppendsInLockOrder ==
    /\ \A c \in Readers :
          /\ mu.w = ""
          /\ Len(messages) = Len(done)
          /\ \A i \in 1..Len(done) :
                /\ i <= Len(messages)
                /\ messages[i].From = done[i].From
                /\ messages[i].ID = ExpectedIDs[i]
          /\ call[c].pc = "listed" => call[c].ret = messages
          /\ call[c].pc = "got" =>
                \A i \in 1..Len(done) :
                    call[c].id = ExpectedIDs[i] => call[c].ret = << messages[i] >>
    /\ \A s \in Sessions :
          /\ sess[s].pc \in {"locked", "stamped"} =>
                mu.w = s /\ Len(messages) = Len(done)
          /\ sess[s].pc = "appended" =>
                /\ mu.w = s
                /\ Len(messages) = Len(done) + 1
                /\ messages[Len(messages)].From = decl[s].mail

\* The first session, inside Data since before the second one started, has not
\* yet taken the lock; the append of the second one has returned, and the
\* Emails and the Email call that started after it both observe its record.
C12_Witness ==
    /\ sess["s1"].pc = "built"
    /\ sess["s1"].email.From = "a"
    /\ sess["s2"].last = "Data_nil"
    /\ call["c1"].pc = "listed"
    /\ Len(call["c1"].ret) = 1
    /\ call["c1"].ret[1].From = "c"
    /\ call["c2"].pc = "got"
    /\ call["c2"].ret = call["c1"].ret

\* C13: in no reachable state is an append or a Clear inside its critical
\* section while another append, Clear, Emails or Email is inside its own;
\* Emails and Email may be inside theirs at the same time.
C13_WritersExcludeAll ==
    /\ Cardinality(Writers) <= 1
    /\ Writers # {} => Readers = {}
    /\ mu.w # "" => Writers = {mu.w}
    /\ mu.w = "" => Writers = {}
    /\ mu.r = Readers

\* Emails and Email are inside their critical sections at once, on a store of
\* two records.
C13_Witness ==
    /\ call["c1"].pc = "listed"
    /\ call["c2"].pc = "get"
    /\ mu.r = {"c1", "c2"}
    /\ Len(messages) = 2

\* What a holder of the records rs reads from them: the fields, and the
\* recipients through the backing arrays.
View(h, rs) == [i \in 1..Len(rs) |-> [rec |-> rs[i], to |-> Elems(h, rs[i].To)]]

\* C14: Emails() returns a snapshot: the copy holds all records present at the
\* moment of the call, in insertion order (an empty sequence when there are
\* none), the caller is handed that copy, and what a caller reads from a
\* sequence it was handed is changed by no later step, append and Clear
\* included.
C14_EmailsReturnsSnapshot ==
    [][ \A c \in Callers :
          /\ (call[c].pc = "list" /\ call'[c].pc = "listed") =>
                /\ call'[c].ret = messages
                /\ Len(call'[c].ret) = Len(done)
          /\ (call[c].pc = "listed" /\ call'[c].pc = "idle") =>
                /\ call[c].ret = messages
                /\ View(heap', call'[c].kept) = View(heap, messages)
          /\ call[c].pc # "listed" =>
                View(heap', call'[c].kept) = View(heap, call[c].kept) ]_vars

\* The caller holds a sequence of two records, the second one with
\* recipients, while the store, cleared and appended to since, holds one.
C14_Witness ==
    /\ call["c1"].pc = "idle"
    /\ Len(call["c1"].kept) = 2
    /\ Elems(heap, call["c1"].kept[2].To) # <<>>
    /\ mu.w = ""
    /\ Len(messages) = 1
    /\ messages[1] # call["c1"].kept[1]

\* C15: the store is append-only except for Clear: a step that is not the
\* Clear emptying the store leaves every record at its position with every
\* field value, the recipients read through the backing array included, and
\* adds at most one record at the end.
C15_AppendOnlyUntilClear ==
    [][ \/ /\ \E c \in Callers : call[c].pc = "clear" /\ call'[c].pc = "cleared"
           /\ messages' = <<>>
        \/ /\ Len(messages') \in {Len(messages), Len(messages) + 1}
           /\ \A i \in 1..Len(messages) :
                 /\ messages'[i] = messages[i]
                 /\ Elems(heap', messages'[i].To) = Elems(heap, messages[i].To)
           /\ Len(messages') = Len(messages) + 1 =>
                 \E s \in Sessions : sess[s].pc = "stamped" /\ sess'[s].pc = "appended" ]_vars

\* A record of three recipients shares its backing array with the list of the
\* session that produced it, and the session has since declared a fourth
\* recipient, stored in the spare capacity of that array.
C15_Witness ==
    \E i \in 1..Len(messages) :
        /\ messages[i].To.len = 3
        /\ sess["s1"].to.len = 4
        /\ sess["s1"].to.arr = messages[i].To.arr
        /\ Elems(heap, messages[i].To) = <<"x", "y", "z">>
        /\ Elems(heap, sess["s1"].to) = <<"x", "y", "z", "w">>

\* The responses to a request for one record, GET /api/v1/emails/{id}.
EmailResponses ==
    { c \in Callers : /\ call[c].pc = "responded"
                      /\ call[c].meth = "GET"
                      /\ call[c].path # <<>>
                      /\ call[c].path[1] = EmailPrefix }

\* C16: GET /api/v1/emails/{id} is answered 200 with the record of that id, or
\* 404 with a plain-text error; an empty id is answered 404; a 200 never comes
\* with an empty body.
C16_GetEmailAnswers200Or404 ==
    \A c \in EmailResponses :
        /\ call[c].status \in {200, 404}
        /\ call[c].path[2] = "" => call[c].status = 404
        /\ call[c].status = 404 => call[c].out.kind = "text"
        /\ call[c].status = 200 =>
              /\ call[c].out.kind = "email"
              /\ Len(call[c].out.obj) = 1
              /\ call[c].out.obj[1].id = call[c].path[2]

\* The responses to GET /api/v1/emails.
ListResponses ==
    { c \in Callers : /\ call[c].pc = "responded"
                      /\ call[c].meth = "GET"
                      /\ call[c].path = <<EmailsPath, "">> }

\* C17: GET /api/v1/emails is answered 200 with total, count and items taken
\* from one snapshot of the store: total = count = the number of items, and
\* the items are the records in insertion order, msg-0 first, also when
\* appends and clears run beside the request.  The snapshot the handler holds
\* while it encodes is the copy Emails made under the read lock.
C17_ListAnswersOneSnapshot ==
    /\ \A c \in ListResponses :
          /\ call[c].status = 200
          /\ call[c].out.kind = "list"
          /\ call[c].out.total = Len(call[c].out.items)
          /\ call[c].out.count = Len(call[c].out.items)
          /\ \A i \in 1..Len(call[c].out.items) :
                /\ call[c].out.items[i].id = ExpectedIDs[i]
                /\ call[c].out.items[i].body = Letter
                /\ call[c].out.items[i].subject = <<"T">>
    /\ \A c \in Callers :
          call[c].pc = "listed" =>
              call[c].ret = messages /\ Len(messages) = Len(done)

\* The list was answered with two items although the store has been cleared
\* and holds one record by now.
C17_Witness ==
    \E c \in ListResponses :
        /\ call[c].out.total = 2
        /\ call[c].out.items[2].id = "msg-1"
        /\ Len(messages) = 1
        /\ mu.w = ""

\* The requests DELETE /api/v1/emails that the handler has finished.
Deleted ==
    { c \in Callers : /\ call[c].pc \in {"reply", "responded"}
                      /\ call[c].meth = "DELETE"
                      /\ call[c].path = <<EmailsPath, "">> }

C19_OptionsAnsweredByMiddleware ==
    /\ [](\A c \in Callers :
            /\ call[c].meth = "OPTIONS" =>
                  /\ call[c].pc = "responded"
                  /\ call[c].status = 204
                  /\ call[c].out = NoBody
            /\ call[c].pc = "responded" =>
                  /\ call[c].status \in {200, 204, 400, 404, 405}
                  /\ CorsHeaders \subseteq call[c].hdr)
    /\ [][ \A c \in Callers :
             (call'[c].meth = "OPTIONS" /\ call'[c] # call[c]) =>
                 /\ call[c].pc = "idle"
                 /\ messages' = messages
                 /\ heap' = heap
                 /\ mu' = mu
                 /\ done' = done
                 /\ sess' = sess ]_vars

\* OPTIONS on /api/v1/emails has been answered 204 and the store still holds
\* its record, while a request with no id has been answered with an error
\* that carries the headers.
C19_Witness ==
    /\ call["c2"].pc = "responded"
    /\ call["c2"].meth = "OPTIONS"
    /\ call["c2"].path = <<EmailsPath, "">>
    /\ call["c2"].status = 204
    /\ Len(messages) = 1
    /\ call["c1"].pc = "responded"
    /\ call["c1"].status = 400
    /\ CorsHeaders \subseteq call["c1"].hdr

\* C20: when Start has returned an error, no serve loop has been entered, no
\* connection has been accepted, no message has been appended, and no
\* listener remains bound.
C20_FailedStartServedNothing ==
    srv.ret \in {"err_smtp", "err_http"} =>
        /\ srv.smtpLoop \notin {"serving", "stopped"}
        /\ srv.httpLoop \notin {"serving", "stopped"}
        /\ \A s \in Sessions : ~Connected(s)
        /\ messages = <<>>
        /\ srv.smtpL # "bound"
        /\ srv.httpL # "bound"

\* The part of it that holds: a failed Start leaves no listener bound, and the
\* HTTP port has served nothing.
FailedStartLeavesNoListener ==
    srv.ret \in {"err_smtp", "err_http"} =>
        /\ srv.smtpL # "bound"
        /\ srv.httpL # "bound"
        /\ srv.httpLoop = "none"
        /\ \A c \in Callers : call[c] = IdleCall

\* C21: Stop first halts acceptance and then waits for the HTTP requests in
\* flight, or for the deadline of ctx: once Stop has returned nil neither
\* server accepts a connection and no request is in flight; Stop returns the
\* deadline's error only after the deadline; and the connection of a session
\* that is reading its body is not closed before the deadline.
C21_StopIsTwoPhase ==
    /\ srv.stopRet = "nil" => ~SmtpAccepting /\ ~Accepting /\ InFlight = {}
    /\ srv.stopRet = "err_http" => srv.ctx = "expired"
    /\ \A s \in srv.cut : sess[s].pc = "read" => srv.ctx = "expired"

\* The part of it that holds: the HTTP half of Stop.  After Stop has returned
\* nil the HTTP server takes no request and none is in flight, and Stop
\* returns the deadline's error only after the deadline, with a request still
\* in flight or just finished.
StopWaitsForRequests ==
    /\ srv.stopRet = "nil" => ~Accepting /\ InFlight = {}
    /\ srv.stopRet = "err_http" => srv.ctx = "expired"
    /\ srv.stop = "wait" => srv.httpDown /\ srv.smtpDone

\* C22: whenever a DefaultServer call returns a server, that server is
\* running at the time of the return: its listeners are bound and it has not
\* been stopped.
C22_DefaultServerReturnsRunning ==
    [][\A t \in Callers :
          (glob.thr[t].pc \in {"ds_locked", "ds_start"}
             /\ glob'.thr[t].pc = "idle" /\ glob'.thr[t].err = "nil")
          => Running(srv')]_vars

\* The part of it that holds: a server that DefaultServer has just made and
\* started is running when it is returned.
FreshDefaultServerIsRunning ==
    [][\A t \in Callers :
          (glob.thr[t].pc = "ds_start"
             /\ glob'.thr[t].pc = "idle" /\ glob'.thr[t].err = "nil")
          => Running(srv')]_vars

\* C23: in every reachable state the record at index i (0-based) of the store
\* has the ID "msg-i", so the IDs in the store are pairwise distinct and are
\* exactly msg-0 .. msg-(len-1), whatever appends and clears have been
\* interleaved.
C23_IdIsIndex ==
    /\ \A i \in 1..Len(messages) : messages[i].ID = ExpectedIDs[i]
    /\ \A i, j \in 1..Len(messages) : messages[i].ID = messages[j].ID => i = j
    /\ IDsOf(messages) = { ExpectedIDs[k] : k \in 1..Len(messages) }

\* The store holds the records of both sessions, msg-0 and msg-1; a Clear
\* holds the lock and is about to replace the store, and a session that has
\* read its next body waits for the lock to append.
C23_Witness ==
    \E s \in Sessions :
        /\ call["c1"].pc = "clear"
        /\ sess[s].pc = "built"
        /\ Len(messages) = 2
        /\ messages[1].From # messages[2].From
        /\ messages[1].ID = "msg-0"
        /\ messages[2].ID = "msg-1"

\* The calls of a session that have returned nil, or are under way.
Accepted == {"New", "AuthPlain", "Mail", "Rcpt", "Reset", "Logout", "Data", "Data_nil"}

\* C24: the session checks no order of the commands.  A session that is not
\* inside Data takes AuthPlain, Mail, Rcpt, Reset and Data, whatever came
\* before; no call returns an error except a Data whose body read failed; a
\* Data on a session with no sender and no recipient declared appends one
\* record with an empty From and an empty To and returns nil; and AuthPlain
\* changes neither the session nor the store.
C24_NoOrderIsChecked ==
    /\ [](\A s \in Sessions :
            /\ Idle(s) =>
                  /\ ENABLED AuthPlain(s, "u", "")
                  /\ ENABLED Mail(s, "a")
                  /\ ENABLED Rcpt(s, "x")
                  /\ ENABLED Reset(s)
                  /\ ENABLED Data_Call(s, Letter)
            /\ sess[s].last \in Accepted \cup {"Data_err"}
            /\ (sess[s].pc = "appended" /\ decl[s].mail = "" /\ decl[s].rcpt = <<>>) =>
                  /\ Len(messages) = Len(done) + 1
                  /\ messages[Len(messages)].From = ""
                  /\ Elems(heap, messages[Len(messages)].To) = <<>>)
    /\ [][\A s \in Sessions :
            /\ (sess'[s].last = "Data_err" /\ sess[s].last # "Data_err") =>
                  sess[s].pc = "read"
            /\ (sess[s].pc = "appended" /\ sess'[s].pc = "idle") =>
                  sess'[s].last = "Data_nil"
            /\ (sess'[s].last = "AuthPlain" /\ sess[s].last # "AuthPlain") =>
                  /\ sess'[s] = [sess[s] EXCEPT !.last = "AuthPlain"]
                  /\ messages' = messages
                  /\ heap' = heap]_vars

\* A session with no sender and no recipient declared (it is new, or was
\* reset) has appended a record to a store that holds a letter from "a"
\* already, and the record has no sender and no recipient.
C24_Witness ==
    /\ sess["s1"].pc = "appended"
    /\ decl["s1"].mail = ""
    /\ decl["s1"].rcpt = <<>>
    /\ Len(messages) = 2
    /\ messages[2].From = ""
    /\ messages[2].To = NilSlice
    /\ messages[1].From = "a"

\* C25: a session that is reading its body holds neither the write lock nor a
\* read lock, and its Lock is not pending.  Under fair scheduling of the
\* store's operations, and with nothing assumed of the body reads, so that
\* sessions may stay in the read for ever: an append that waits for the lock
\* completes, a Clear whose Lock is pending completes, a call of Email or of
\* Emails that has the lock returns, each of the three calls goes on being
\* served, and the write lock is always released.
C25_BodyReadHoldsNoLock ==
    /\ [](\A s \in Sessions :
            sess[s].pc = "read" => (mu.w # s /\ mu.p # s /\ s \notin mu.r))
    /\ \A s \in Sessions : (sess[s].pc = "built") ~> (sess[s].pc = "idle")
    /\ (mu.p = "c1") ~> (call["c1"].pc = "cleared")
    /\ \A c \in Callers : (call[c].pc # "idle") ~> (call[c].pc = "idle")
    /\ []<>(call["c1"].pc = "cleared")
    /\ []<>(call["c1"].pc = "got")
    /\ []<>(call["c2"].pc = "listed")
    /\ (mu.w # "") ~> (mu.w = "")

\* One session is in the middle of its body, with a part of it read, while
\* the other session has appended its record and holds the lock.
C25_Witness ==
    /\ sess["s1"].pc = "read"
    /\ sess["s1"].buf # <<>>
    /\ sess["s1"].wire # <<>>
    /\ sess["s2"].pc = "appended"
    /\ mu.w = "s2"

\* A step in which a caller writes to what it was handed, and nothing else
\* happens: no session and no call moves, and the store's slice is the same.
CallerWrites ==
    /\ sess' = sess
    /\ mu' = mu
    /\ messages' = messages
    /\ \A c \in Callers : call'[c].pc = call[c].pc
    /\ (call' # call \/ heap' # heap)

\* C26: what the store hands out is an independent copy: a step in which a
\* caller writes to a sequence Emails returned or to a record Email returned,
\* an element of a recipient list included, changes nothing of what the
\* store's records read, and so nothing of what later queries return.
C26_HandedOutCopiesAreIndependent ==
    [][CallerWrites => View(heap', messages') = View(heap, messages)]_vars

\* The bytes of line k, the carriage return included.
RawLine(body, k) == SubSeq(body, LineStart(body, k), LineStop(body, k))

\* The intake accepts the body: no line is longer than MaxLineLength.
IntakeAccepts(body) ==
    \A k \in 1..NumLines(body) : ByteLen(RawLine(body, k)) <= MaxLineLength

\* The first line that names the field among the lines before the first empty
\* line; 0 when there is none.
SubjectLine(body) ==
    LET n     == NumLines(body)
        empty == { k \in 1..n : LineOf(body, k) = <<>> }
        hits  == { k \in 1..n : /\ \A e \in empty : k < e
                                /\ NamesSubject(LineOf(body, k)) }
    IN  IF hits = {} THEN 0 ELSE CHOOSE k \in hits : \A h \in hits : k <= h

\* C27: for every body the intake accepts, a Subject line before the first
\* empty line is found whatever the length of the lines before it: the
\* subject returned is the value of that line.  (The Subject line itself is
\* taken to fit the scanner: the claim is about the lines that precede it.)
C27_LongLinesDoNotHideSubject ==
    (/\ scanDone
     /\ IntakeAccepts(scanIn)
     /\ SubjectLine(scanIn) # 0
     /\ ByteLen(RawLine(scanIn, SubjectLine(scanIn))) < MaxScanTokenSize)
    => scanOut = FieldValue(LineOf(scanIn, SubjectLine(scanIn)))

\* The goroutines inside DefaultServer or StopDefault, past the Lock.
InGlobal ==
    { t \in Callers : glob.thr[t].pc \in {"ds_locked", "ds_start", "sd_locked", "sd_call"} }

\* C28: DefaultServer is a guarded singleton.  At most one goroutine is inside
\* DefaultServer or StopDefault; a server is made only while none is cached;
\* and all the servers that DefaultServer has returned between two StopDefault
\* calls are one and the same, so that the callers share its store.
C28_DefaultServerIsSingleton ==
    /\ [](Cardinality(InGlobal) <= 1)
    /\ [](\A a, b \in glob.got : a[1] = b[1] => a[2] = b[2])
    /\ [](glob.server \in {0, glob.made})
    /\ [][glob'.made # glob.made => (glob.server = 0 /\ glob'.made = glob.made + 1)]_vars

\* After a StopDefault, both goroutines hold the second server, the second of
\* them from the cache, and a letter is in its store.
C28_Witness ==
    /\ glob.epoch = 1
    /\ glob.server = 2
    /\ glob.thr["c1"] = [pc |-> "idle", ret |-> 2, err |-> "nil"]
    /\ glob.thr["c2"] = [pc |-> "idle", ret |-> 2, err |-> "nil"]
    /\ <<0, 1>> \in glob.got
    /\ Len(messages) = 1

\* C29: the cached global server is set only by a DefaultServer call whose
\* Start succeeded, and every StopDefault call unsets it.  A DefaultServer call
\* whose Start failed returns the error and leaves the global unset, and a call
\* that finds it unset makes a new server, with an empty store.  StopDefault
\* with no global returns nil and changes nothing of the server.  StopDefault
\* unsets the global whatever Stop returned, and returns that error.
C29_GlobalFollowsStartAndStopDefault ==
    /\ [][(glob.server = 0 /\ glob'.server # 0) =>
            \E t \in Callers :
                /\ glob.thr[t].pc = "ds_start"
                /\ srv.pc = "done" /\ srv.ret = "nil"
                /\ glob'.thr[t] = [pc |-> "idle", ret |-> glob'.server, err |-> "nil"]]_vars
    /\ [][\A t \in Callers :
            (glob.thr[t].pc = "ds_start" /\ glob'.thr[t].pc = "idle" /\ srv.ret # "nil") =>
                /\ glob'.server = 0
                /\ glob'.thr[t] = [pc |-> "idle", ret |-> 0, err |-> "err"]]_vars
    /\ [][\A t \in Callers :
            (glob.thr[t].pc = "ds_locked" /\ glob'.thr[t].pc # "ds_locked" /\ glob.server = 0) =>
                /\ glob'.made = glob.made + 1
                /\ glob'.thr[t].pc = "ds_start"
                /\ srv' = NotStarted
                /\ messages' = <<>>]_vars
    /\ [][\A t \in Callers :
            (glob.thr[t].pc = "sd_locked" /\ glob'.thr[t].pc # "sd_locked" /\ glob.server = 0) =>
                /\ glob'.thr[t] = [glob.thr[t] EXCEPT !.pc = "idle", !.err = "nil"]
                /\ glob'.server = 0
                /\ UNCHANGED <<srv, messages, sess>>]_vars
    /\ [][\A t \in Callers :
            (glob.thr[t].pc = "sd_call" /\ glob'.thr[t].pc # "sd_call") =>
                /\ glob'.server = 0
                /\ glob'.thr[t].err = srv.stopRet]_vars
    /\ [](glob.server = 0 \/ \A t \in Callers : glob.thr[t].pc # "ds_start")

\* StopDefault has returned the error of a Stop that failed (the server had
\* been stopped before), the global is unset, and the next DefaultServer call
\* has made the second server, whose store is empty.
C29_Witness ==
    /\ glob.thr["c1"].pc = "idle"
    /\ glob.thr["c1"].err = "err_smtp"
    /\ glob.epoch = 1
    /\ glob.server = 0
    /\ glob.made = 2
    /\ glob.thr["c2"].pc = "ds_start"
    /\ messages = <<>>

\* Two accesses to s.logger that are under way together, one of them a write,
\* and not both made while holding mu.
LoggerRace ==
    \E a, b \in logger.acc :
        /\ a # b
        /\ "write" \in {a.kind, b.kind}
        /\ ~(a.locked /\ b.locked)

\* C30: the Server is safe for concurrent use: every read and write of
\* s.logger, by SetLogger and by the serve goroutines that Start launches, is
\* made while holding mu, so that no goroutine writes the field while another
\* reads or writes it without synchronisation; and whoever reads or writes
\* s.messages holds mu.
C30_EveryAccessHoldsMu ==
    /\ ~LoggerRace
    /\ \A s \in Sessions : sess[s].pc \in {"locked", "stamped", "appended"} => mu.w = s
    /\ \A c \in Callers : call[c].pc \in {"list", "listed"} => c \in mu.r

\* What holds of the logger: SetLogger itself writes holding mu, and two
\* writes are never under way together.
SetLoggerWritesUnderMu ==
    \A a \in logger.acc :
        a.kind = "write" => (a.locked /\ mu.w = a.who /\
                             \A b \in logger.acc : b.kind = "write" => b = a)

\* s.smtpServer.Close() returns an error: the server was closed before, or a
\* listener it holds is closed already.
CloseFails(r) == r.smtpDone \/ (r.smtpReg /\ r.smtpL = "closed")

\* What Stop can change of the HTTP server.
HttpSide(r) == <<r.httpDown, r.httpL, r.httpLoop, r.httpReg>>

\* What only a step of Stop changes.
StopSide(r) == <<r.stop, r.stopRet, r.smtpDone, r.cut>>

\* The order of Stop and its early return: a Stop whose SMTP close fails
\* returns that error at once and leaves the HTTP server exactly as it was,
\* with the requests in flight going on; a Stop whose SMTP close succeeds goes
\* on to the HTTP shutdown; and nothing but the HTTP shutdown of a Stop past
\* its SMTP close marks the HTTP server as shutting down.
StopOrder ==
    /\ [][(srv.stop = "idle" /\ StopSide(srv') # StopSide(srv)) =>
            IF CloseFails(srv)
              THEN /\ srv'.stopRet = "err_smtp"
                   /\ srv'.stop = "idle"
                   /\ HttpSide(srv') = HttpSide(srv)
                   /\ call' = call
                   /\ Accepting' = Accepting
              ELSE /\ srv'.stop = "shutdown"
                   /\ srv'.smtpDone
                   /\ srv'.stopRet = ""
                   /\ HttpSide(srv') = HttpSide(srv)]_vars
    /\ [][srv'.httpDown # srv.httpDown =>
            /\ srv.stop = "shutdown"
            /\ srv.smtpDone
            /\ srv'.httpDown]_vars
    /\ [](srv.stop \in {"shutdown", "wait"} => srv.smtpDone /\ srv.stopRet = "")
    /\ [](srv.stop = "wait" => srv.httpDown)

\* What holds when the HTTP shutdown fails: the deadline has passed, Close has
\* been called on the SMTP server and has returned nil, and the HTTP server is
\* shutting down.
StopFailsAfterClose ==
    [][(srv'.stopRet = "err_http" /\ srv.stopRet # "err_http") =>
          /\ srv.stop = "wait"
          /\ srv.ctx = "expired"
          /\ srv'.smtpDone /\ srv'.httpDown]_vars

\* C31: Stop shuts the servers down in a fixed order, SMTP first and then
\* HTTP, and tries the HTTP shutdown only when closing the SMTP server
\* succeeded.  When the SMTP close returns an error, Stop returns that error
\* without calling the HTTP shutdown and the HTTP server goes on as it was.
\* When the HTTP shutdown fails, Stop returns that error with the SMTP server
\* already closed: it accepts no connection and has none open.
C31_StopClosesSmtpThenHttp ==
    /\ StopOrder
    /\ StopFailsAfterClose
    /\ [][(srv'.stopRet = "err_http" /\ srv.stopRet # "err_http") =>
            /\ ~SmtpAccepting'
            /\ \A s \in Sessions : ~Open(s)']_vars

=============================================================================
